---- MODULE Spec2Model ----
(***************************************************************************)
(* A model of the ticket -> billing -> inventory consistency engine of the *)
(* time tracker: the hardware catalog (app/crud/hardware.py), the          *)
(* inventory ledger (app/crud/inventory.py) and the ticket engine          *)
(* (app/crud/tickets.py), over a single relational store.                  *)
(*                                                                         *)
(* Text values are sequences of one-character strings, so that parsing,    *)
(* normalising and formatting are computed, never assumed.  Python's None  *)
(* (SQL NULL) is NULL for text and decimals and NoInt for integer columns. *)
(* A Decimal is a pair <<n, s>> standing for n / 10^s.                     *)
(***************************************************************************)
EXTENDS Integers, Sequences, FiniteSets, TLC

VARIABLES
    hardware,   \* table hardware: a set of rows [id, barcode, sales_price, acquisition_cost]
    tickets,    \* table tickets: a set of rows
    events,     \* table inventory_events: a set of rows
    clients,    \* the client directory (client_table.json): key -> entry
    projects,   \* table projects: a set of rows [id, client_key, client, status, finalized_at]
    last,       \* the outcome of the last completed operation
    pc,         \* position of the one request in flight in the sequential specifications
    cur,        \* the ticket id that request works on
    workers     \* the concurrent specification: each request's position and locals

vars == <<hardware, tickets, events, clients, projects, last, pc, cur, workers>>

NULL == <<"None">>
NoInt == 0

----------------------------------------------------------------------------
(* Generic helpers.                                                        *)

Max(S) == CHOOSE m \in S : \A y \in S : y <= m

NextId(rows) == IF rows = {} THEN 1 ELSE Max({r.id : r \in rows}) + 1

\* the value of a one-element set: {e(x) : x \in {v}} is e evaluated with x
\* bound to the value v, computed once
The(S) == CHOOSE x \in S : TRUE

Abs(n) == IF n < 0 THEN 0 - n ELSE n

RECURSIVE Pow10(_)
Pow10(k) == IF k = 0 THEN 1 ELSE 10 * Pow10(k - 1)

RECURSIVE Filter(_, _)
Filter(s, keep) ==
    IF s = <<>> THEN <<>>
    ELSE IF Head(s) \in keep THEN <<Head(s)>> \o Filter(Tail(s), keep)
         ELSE Filter(Tail(s), keep)

----------------------------------------------------------------------------
(* Characters.                                                             *)

Digits == {"0", "1", "2", "3", "4", "5", "6", "7", "8", "9"}
LowerAlpha == {"a", "b", "c"}
UpperAlpha == {"A", "B", "C"}
Alpha == LowerAlpha \cup UpperAlpha
Whitespace == {" "}
Chars == Digits \cup Alpha \cup Whitespace \cup {".", "-", "$", ","}

UpperChar(c) ==
    CASE c = "a" -> "A"
      [] c = "b" -> "B"
      [] c = "c" -> "C"
      [] OTHER -> c

Upper(s) == [i \in 1..Len(s) |-> UpperChar(s[i])]

DigitVal(c) ==
    CASE c = "0" -> 0 [] c = "1" -> 1 [] c = "2" -> 2 [] c = "3" -> 3
      [] c = "4" -> 4 [] c = "5" -> 5 [] c = "6" -> 6 [] c = "7" -> 7
      [] c = "8" -> 8 [] c = "9" -> 9

DigitChar(d) ==
    CASE d = 0 -> "0" [] d = 1 -> "1" [] d = 2 -> "2" [] d = 3 -> "3"
      [] d = 4 -> "4" [] d = 5 -> "5" [] d = 6 -> "6" [] d = 7 -> "7"
      [] d = 8 -> "8" [] d = 9 -> "9"

RECURSIVE LStrip(_)
LStrip(s) ==
    IF s # <<>> /\ Head(s) \in Whitespace THEN LStrip(Tail(s)) ELSE s

RECURSIVE RStrip(_)
RStrip(s) ==
    IF s # <<>> /\ s[Len(s)] \in Whitespace THEN RStrip(SubSeq(s, 1, Len(s) - 1)) ELSE s

\* str.strip()
Strip(s) == RStrip(LStrip(s))

RECURSIVE CollapseWs(_)
CollapseWs(s) ==
    IF Len(s) < 2 THEN s
    ELSE IF s[1] \in Whitespace /\ s[2] \in Whitespace THEN CollapseWs(Tail(s))
         ELSE <<Head(s)>> \o CollapseWs(Tail(s))

RECURSIVE NatToStr(_)
NatToStr(n) ==
    IF n < 10 THEN <<DigitChar(n)>>
    ELSE NatToStr(n \div 10) \o <<DigitChar(n % 10)>>

RECURSIVE DigitsToNat(_)
DigitsToNat(s) ==
    IF s = <<>> THEN 0
    ELSE 10 * DigitsToNat(SubSeq(s, 1, Len(s) - 1)) + DigitVal(s[Len(s)])

----------------------------------------------------------------------------
(* Barcode Normalizer: app/core/barcodes.py.                               *)

\* _strip_and_collapse
StripAndCollapse(value) == CollapseWs(Strip(value))

HasAlpha(s) == \E i \in 1..Len(s) : s[i] \in Alpha

UpcLen == 12

\* normalize_barcode without the 12-digit branch guarded against its own
\* output: every run of digits gains a leading zero
normalize_barcode_prefix_all(raw) ==
    IF raw = NULL THEN NULL
    ELSE LET cleaned == StripAndCollapse(raw)
             digits  == Filter(cleaned, Digits)
         IN  IF cleaned = <<>> THEN NULL
             ELSE IF ~HasAlpha(cleaned) /\ digits # <<>>
                  THEN IF Len(digits) >= UpcLen THEN <<"0">> \o digits ELSE digits
                  ELSE Upper(cleaned)

\* normalize_barcode
normalize_barcode(raw) ==
    IF raw = NULL THEN NULL
    ELSE LET cleaned == StripAndCollapse(raw)
             digits  == Filter(cleaned, Digits)
         IN  IF cleaned = <<>> THEN NULL
             ELSE IF ~HasAlpha(cleaned) /\ digits # <<>>
                  THEN IF Len(digits) = UpcLen THEN <<"0">> \o digits ELSE digits
                  ELSE Upper(cleaned)

\* the local add() of barcode_aliases: append when non-empty and unseen
AddAlias(aliases, candidate) ==
    IF candidate = NULL \/ candidate = <<>> THEN aliases
    ELSE IF \E i \in 1..Len(aliases) : aliases[i] = candidate THEN aliases
    ELSE Append(aliases, candidate)

\* barcode_aliases
barcode_aliases(raw) ==
    IF raw = NULL \/ StripAndCollapse(raw) = <<>> THEN <<>>
    ELSE The({AddAlias(
                  AddAlias(
                      AddAlias(
                          AddAlias(AddAlias(<<>>, normalize_barcode(cleaned)),
                                   IF ~HasAlpha(cleaned) THEN digits ELSE <<>>),
                          IF ~HasAlpha(cleaned) /\ Len(digits) = UpcLen
                          THEN <<"0">> \o digits ELSE <<>>),
                      IF ~HasAlpha(cleaned) /\ Len(digits) = UpcLen + 1 /\ digits[1] = "0"
                      THEN Tail(digits) ELSE <<>>),
                  Upper(cleaned)) :
              cleaned \in {StripAndCollapse(raw)},
              digits \in {Filter(StripAndCollapse(raw), Digits)}})

----------------------------------------------------------------------------
(* Money/Decimal utilities: app/crud/tickets.py, app/crud/inventory.py.    *)

\* Decimal(cleaned): [sign] digits [. digits] with at least one digit.  The
\* alphabet of the model has no exponent, NaN or Infinity spellings.
IsDecimalSyntax(s) ==
    LET body == IF s # <<>> /\ s[1] = "-" THEN Tail(s) ELSE s
        dots == Filter(body, {"."})
    IN  /\ body # <<>>
        /\ \A i \in 1..Len(body) : body[i] \in Digits \cup {"."}
        /\ Len(dots) <= 1
        /\ Filter(body, Digits) # <<>>

DotPos(s) == CHOOSE i \in 1..Len(s) : s[i] = "."

ParseDecimal(s) ==
    LET neg  == s[1] = "-"
        body == IF neg THEN Tail(s) ELSE s
        hasDot == \E i \in 1..Len(body) : body[i] = "."
        scale == IF hasDot THEN Len(body) - DotPos(body) ELSE 0
        mag == DigitsToNat(Filter(body, Digits))
    IN  <<IF neg THEN 0 - mag ELSE mag, scale>>

\* _to_decimal on a str (or None)
to_decimal(value) ==
    IF value = NULL THEN NULL
    ELSE LET cleaned == Strip(Filter(Strip(value), Chars \ {"$", ","}))
         IN  IF Strip(value) = <<>> THEN NULL
             ELSE IF IsDecimalSyntax(cleaned) THEN ParseDecimal(cleaned)
             ELSE NULL

\* Decimal * int
DecTimes(d, k) == <<d[1] * k, d[2]>>

\* Decimal * Decimal
DecMul(a, b) == <<a[1] * b[1], a[2] + b[2]>>

\* Decimal.quantize(Decimal("0.01")) under the default context
\* (ROUND_HALF_EVEN), as a whole number of cents
QuantizeCents(d) ==
    LET n == Abs(d[1])
        s == d[2]
        sign == IF d[1] < 0 THEN 0 - 1 ELSE 1
    IN  IF s <= 2 THEN d[1] * Pow10(2 - s)
        ELSE LET unit == Pow10(s - 2)
                 q == n \div unit
                 r == n % unit
                 up == (2 * r > unit) \/ (2 * r = unit /\ q % 2 = 1)
             IN  sign * (IF up THEN q + 1 ELSE q)

\* format(quantized, "f") of a whole number of cents
CentsToStr(c) ==
    LET n == Abs(c)
        frac == n % 100
    IN  (IF c < 0 THEN <<"-">> ELSE <<>>)
        \o NatToStr(n \div 100) \o <<".">>
        \o <<DigitChar(frac \div 10), DigitChar(frac % 10)>>

\* _format_decimal
format_decimal(value) ==
    IF value = NULL THEN NULL ELSE CentsToStr(QuantizeCents(value))

\* _normalize_currency_input on a str (or None)
normalize_currency_input(value) ==
    IF value = NULL THEN NULL
    ELSE IF to_decimal(value) # NULL THEN format_decimal(to_decimal(value))
    ELSE IF Strip(value) = <<>> THEN NULL ELSE Strip(value)

RECURSIVE CanonFloat(_)
\* A float has no scale: the same number is the same value.
CanonFloat(d) ==
    IF d[2] > 0 /\ d[1] % 10 = 0 THEN CanonFloat(<<d[1] \div 10, d[2] - 1>>) ELSE d

\* _money_to_float on a str (or None)
money_to_float(value) ==
    IF to_decimal(value) = NULL THEN NULL ELSE CanonFloat(to_decimal(value))

\* _normalize_amount on a float (or None): float(value)
normalize_amount(value) == IF value = NULL THEN NULL ELSE CanonFloat(value)

\* float * int, None-propagating as the callers write it
FloatTimes(f, k) == IF f = NULL THEN NULL ELSE CanonFloat(DecTimes(f, k))

\* _total_value
total_value(unit, change) ==
    IF unit = NULL THEN NULL
    ELSE IF Abs(change) = 0 THEN NULL
    ELSE FloatTimes(unit, Abs(change))

----------------------------------------------------------------------------
(* Time math: app/services/timecalc.py.                                    *)

Quantum == 15
MinBillable == 5

\* round_minutes with the ceiling replaced by rounding to the nearest quantum
RoundedMinutes_nearest(mins) ==
    LET m == IF mins < 0 THEN 0 ELSE mins
    IN  IF m < MinBillable THEN 0
        ELSE ((m + Quantum \div 2) \div Quantum) * Quantum

\* round_minutes: the rounded minutes
RoundedMinutes(mins) ==
    LET m == IF mins < 0 THEN 0 ELSE mins
    IN  IF m < MinBillable THEN 0
        ELSE ((m + Quantum - 1) \div Quantum) * Quantum

\* round_minutes: f"{rmin/60:.2f}"
RoundedHours(rmin) == CentsToStr(QuantizeCents(<<(rmin * 1000) \div 6, 4>>))

----------------------------------------------------------------------------
(* Client directory: app/services/clientsync.py.  A client key or name is  *)
(* a plain string, "" standing for a missing (falsy) one.                   *)

\* resolve_client_name: entry.get("name") or ... or client_key
resolve_client_name(client_key) ==
    IF client_key \in DOMAIN clients
    THEN (IF clients[client_key].name # "" THEN clients[client_key].name ELSE client_key)
    ELSE ""

\* _support_rate_for_client
support_rate_for_client(client_key) ==
    IF client_key = "" \/ client_key \notin DOMAIN clients THEN NULL
    ELSE to_decimal(clients[client_key].support_rate)

----------------------------------------------------------------------------
(* Payloads: a dict is a record whose field keys holds the keys present.   *)
(* The API drops None values, so a key is absent or carries a value.        *)

Has(p, k) == k \in p.keys

\* payload.get(k, default)
Get(p, k, default) == IF Has(p, k) THEN p[k] ELSE default

EmptyPayload ==
    [keys |-> {}, client_key |-> "", client |-> "", entry_type |-> "time",
     start_iso |-> NoInt, end_iso |-> NoInt, completed |-> 0,
     invoiced_total |-> NULL, hardware_id |-> NoInt, hardware_barcode |-> NULL,
     hardware_quantity |-> NoInt, hardware_sales_price |-> NULL,
     flat_rate_amount |-> NULL, flat_rate_quantity |-> NoInt,
     note |-> NULL, sent |-> 0, project_id |-> NoInt, project_posted |-> 0]

With(p, k, v) == [p EXCEPT !.keys = @ \cup {k}, ![k] = v]

----------------------------------------------------------------------------
(* Ticket/Billing Engine: app/crud/tickets.py.                             *)

HwRow(id) == CHOOSE h \in hardware : h.id = id

HwExists(id) == \E h \in hardware : h.id = id

\* isinstance(existing, str) and existing.strip()
NonBlank(text) == text # NULL /\ Strip(text) # <<>>

\* _calculate_ticket_amount
calculate_ticket_amount(t) ==
    IF t.entry_type = "hardware"
    THEN The({IF unit_price = NULL THEN NULL
              ELSE DecTimes(unit_price, IF t.hardware_quantity # NoInt
                                        THEN t.hardware_quantity ELSE 1) :
              unit_price \in {to_decimal(t.hardware_sales_price)}})
    ELSE IF t.entry_type = "deployment_flat_rate"
    THEN The({IF unit_price = NULL THEN NULL
              ELSE DecTimes(unit_price, IF t.flat_rate_quantity # NoInt
                                        THEN t.flat_rate_quantity ELSE 1) :
              unit_price \in {to_decimal(t.flat_rate_amount)}})
    ELSE The({LET minutes_value == IF t.rounded_minutes # 0 THEN t.rounded_minutes
                                   ELSE t.elapsed_minutes
                  hours_decimal == IF parsed # NULL THEN parsed
                                   ELSE IF minutes_value # 0
                                        THEN <<(minutes_value * 1000000) \div 60, 6>>
                                        ELSE NULL
              IN  IF hours_decimal = NULL \/ rate = NULL THEN NULL
                  ELSE DecMul(hours_decimal, rate) :
              parsed \in {to_decimal(t.rounded_hours)},
              rate \in {support_rate_for_client(t.client_key)}})

\* the mutant of ensure_calculated_fields that overwrites invoiced_total
ensure_calculated_fields_overwrite(t, initialize_invoice) ==
    The({[t EXCEPT !.calculated_value = formatted,
                   !.invoiced_total = IF formatted # NULL THEN formatted ELSE @] :
         formatted \in {format_decimal(calculate_ticket_amount(t))}})

\* _ensure_calculated_fields
ensure_calculated_fields(t, initialize_invoice) ==
    The({[t EXCEPT !.calculated_value = formatted,
                   !.invoiced_total =
                       IF initialize_invoice /\ ~NonBlank(@) /\ formatted # NULL
                       THEN formatted ELSE @] :
         formatted \in {format_decimal(calculate_ticket_amount(t))}})

\* _resolve_hardware: the id of the row found, NoInt for None
resolve_hardware(p, fallback_id) ==
    The({LET hw_id == Get(p, "hardware_id", fallback_id)
             hits == {i \in 1..Len(aliases) : \E h \in hardware : h.barcode = aliases[i]}
         IN  IF hits # {}
             THEN LET first == CHOOSE i \in hits : \A j \in hits : i <= j
                  IN  (CHOOSE h \in hardware : h.barcode = aliases[first]).id
             ELSE IF hw_id # NoInt /\ HwExists(hw_id) THEN hw_id
             ELSE NoInt :
         aliases \in {barcode_aliases(Get(p, "hardware_barcode", NULL))}})

\* .strip() or None of an optional str override
StripOrNone(p, k) ==
    IF Has(p, k) /\ p[k] # NULL /\ Strip(p[k]) # <<>> THEN Strip(p[k]) ELSE NULL

\* _apply_hardware_link: the quantity it validates
hardware_qty_value(t, p) ==
    IF Has(p, "hardware_quantity") THEN p.hardware_quantity
    ELSE IF t.hardware_quantity # NoInt THEN t.hardware_quantity ELSE 1

\* _apply_hardware_link raises ValueError
hardware_link_error(t, p) ==
    /\ Get(p, "entry_type", t.entry_type) = "hardware"
    /\ hardware_qty_value(t, p) <= 0

\* _apply_hardware_link
apply_hardware_link(t, p) ==
    IF Get(p, "entry_type", t.entry_type) # "hardware"
    THEN [t EXCEPT !.hardware_id = NoInt, !.hardware_sales_price = NULL,
                   !.hardware_quantity = NoInt]
    ELSE The({[t EXCEPT !.hardware_id = hw,
                        !.hardware_sales_price =
                            IF hw # NoInt /\ price_override = NULL
                            THEN HwRow(hw).sales_price ELSE price_override,
                        !.hardware_quantity = hardware_qty_value(t, p)] :
              hw \in {resolve_hardware(p, t.hardware_id)},
              price_override \in {StripOrNone(p, "hardware_sales_price")}})

\* _apply_flat_rate_fields: the quantity it validates
flat_qty_value(t, p) ==
    IF Has(p, "flat_rate_quantity") THEN p.flat_rate_quantity
    ELSE IF t.flat_rate_quantity # NoInt THEN t.flat_rate_quantity ELSE 1

\* _apply_flat_rate_fields raises ValueError
flat_rate_error(t, p) ==
    /\ Get(p, "entry_type", t.entry_type) = "deployment_flat_rate"
    /\ \/ normalize_currency_input(Get(p, "flat_rate_amount", t.flat_rate_amount)) = NULL
       \/ flat_qty_value(t, p) <= 0

\* _apply_flat_rate_fields
apply_flat_rate_fields(t, p) ==
    IF Get(p, "entry_type", t.entry_type) # "deployment_flat_rate"
    THEN [t EXCEPT !.flat_rate_amount = NULL, !.flat_rate_quantity = NoInt]
    ELSE [t EXCEPT !.flat_rate_amount =
                       normalize_currency_input(Get(p, "flat_rate_amount", t.flat_rate_amount)),
                   !.flat_rate_quantity = flat_qty_value(t, p)]

\* _apply_client_link: the display name it settles on
client_link_name(t, p) ==
    LET client_key == Get(p, "client_key", t.client_key)
    IN  IF Has(p, "client") /\ p.client # "" THEN p.client
        ELSE resolve_client_name(client_key)

\* _apply_client_link raises ValueError
client_link_error(t, p) ==
    \/ Get(p, "client_key", t.client_key) = ""
    \/ client_link_name(t, p) = ""

\* _apply_client_link
apply_client_link(t, p) ==
    [t EXCEPT !.client_key = Get(p, "client_key", t.client_key),
              !.client = client_link_name(t, p)]

\* compute_minutes on two present timestamps, whole minutes
compute_minutes(start_iso, end_iso) ==
    IF end_iso - start_iso < 0 THEN 0 ELSE end_iso - start_iso

\* _apply_time_math
apply_time_math(t, p) ==
    LET start_iso == Get(p, "start_iso", t.start_iso)
        end_iso == Get(p, "end_iso", t.end_iso)
        base == IF start_iso # NoInt /\ end_iso # NoInt
                THEN compute_minutes(start_iso, end_iso) ELSE 0
    IN  [t EXCEPT !.elapsed_minutes = base,
                  !.rounded_minutes = RoundedMinutes(base),
                  !.rounded_hours = RoundedHours(RoundedMinutes(base))]

\* CONTRACT_CLIENT_NOTE_PREFIX
CONTRACT_CLIENT_NOTE_PREFIX ==
    <<"A", "d", "d", " ", "t", "o", " ", "m", "o", "n", "t", "h", "l", "y",
      " ", "-", " ", "b", "u", "t", " ", "d", "o", " ", "n", "o", "t", " ",
      "a", "s", "s", "i", "g", "n", " ", "v", "a", "l", "u", "e">>

\* str.startswith
StartsWith(s, prefix) ==
    Len(s) >= Len(prefix) /\ SubSeq(s, 1, Len(prefix)) = prefix

\* _is_contract_client
is_contract_client(client_key) ==
    client_key \in DOMAIN clients /\ clients[client_key].contract

\* _prepend_contract_note without the startswith test: the notice is put in
\* front of every note
prepend_contract_note_always(note, contract_client) ==
    IF ~contract_client THEN note
    ELSE IF note = NULL \/ note = <<>> THEN CONTRACT_CLIENT_NOTE_PREFIX
    ELSE CONTRACT_CLIENT_NOTE_PREFIX \o <<"\n">> \o note

\* _prepend_contract_note
prepend_contract_note(note, contract_client) ==
    IF ~contract_client THEN note
    ELSE IF note = NULL \/ note = <<>> THEN CONTRACT_CLIENT_NOTE_PREFIX
    ELSE IF StartsWith(LStrip(note), CONTRACT_CLIENT_NOTE_PREFIX) THEN note
    ELSE CONTRACT_CLIENT_NOTE_PREFIX \o <<"\n">> \o note

\* Ticket(...) as create_entry constructs it, before the _apply_* calls
new_ticket(p, id) ==
    [id |-> id, client |-> "", client_key |-> p.client_key,
     start_iso |-> p.start_iso, end_iso |-> Get(p, "end_iso", NoInt),
     elapsed_minutes |-> 0, rounded_minutes |-> 0, rounded_hours |-> NULL,
     note |-> prepend_contract_note(Get(p, "note", NULL),
                                    is_contract_client(p.client_key)),
     completed |-> 0,
     sent |-> Get(p, "sent", 0),
     project_id |-> NoInt, project_posted |-> 0,
     invoiced_total |-> normalize_currency_input(Get(p, "invoiced_total", NULL)),
     calculated_value |-> NULL,
     entry_type |-> Get(p, "entry_type", "time"),
     hardware_id |-> Get(p, "hardware_id", NoInt),
     hardware_sales_price |-> NULL, hardware_quantity |-> NoInt,
     flat_rate_amount |-> NULL, flat_rate_quantity |-> NoInt]

DefaultQuantity == 1

\* INSERT: a None attribute is left out of the statement, so the column's
\* default (hardware_quantity, flat_rate_quantity: default=1) is stored
insert_defaults(t) ==
    [t EXCEPT !.hardware_quantity = IF @ = NoInt THEN DefaultQuantity ELSE @,
              !.flat_rate_quantity = IF @ = NoInt THEN DefaultQuantity ELSE @]

\* create_entry raises ValueError
create_error(p) ==
    \/ ~Has(p, "client_key")
    \/ p.client_key = ""
    \/ client_link_error(new_ticket(p, NoInt), p)
    \/ hardware_link_error(new_ticket(p, NoInt), p)
    \/ flat_rate_error(new_ticket(p, NoInt), p)

\* create_entry: the row it commits
create_row(p, id) ==
    insert_defaults(
        ensure_calculated_fields(
            apply_flat_rate_fields(
                apply_hardware_link(
                    apply_time_math(apply_client_link(new_ticket(p, id), p), p), p), p),
            TRUE))

\* update_ticket: the setattr loop over the payload (client and client_key
\* are skipped, invoiced_total is normalised and the note of a contract
\* client prefixed first; project_posted arrives as 0 or 1)
set_attrs(t, p) ==
    [t EXCEPT !.start_iso = Get(p, "start_iso", @),
              !.end_iso = Get(p, "end_iso", @),
              !.note =
                  IF Has(p, "note")
                  THEN prepend_contract_note(
                           p.note, is_contract_client(Get(p, "client_key", t.client_key)))
                  ELSE @,
              !.completed = Get(p, "completed", @),
              !.sent = Get(p, "sent", @),
              !.project_id = Get(p, "project_id", @),
              !.project_posted = Get(p, "project_posted", @),
              !.invoiced_total =
                  IF Has(p, "invoiced_total")
                  THEN normalize_currency_input(p.invoiced_total) ELSE @,
              !.entry_type = Get(p, "entry_type", @),
              !.hardware_id = Get(p, "hardware_id", @),
              !.hardware_quantity = Get(p, "hardware_quantity", @),
              !.hardware_sales_price = Get(p, "hardware_sales_price", @),
              !.flat_rate_amount = Get(p, "flat_rate_amount", @),
              !.flat_rate_quantity = Get(p, "flat_rate_quantity", @)]

LinkKeys ==
    {"entry_type", "hardware_id", "hardware_barcode", "hardware_quantity",
     "hardware_sales_price", "hardware_description", "flat_rate_amount",
     "flat_rate_quantity"}

TouchesClient(p) == Has(p, "client_key") \/ Has(p, "client")
TouchesTime(p) == Has(p, "start_iso") \/ Has(p, "end_iso")
TouchesLink(p) == p.keys \cap LinkKeys # {}

\* update_ticket raises ValueError
update_error(t, p) ==
    \/ TouchesClient(p) /\ client_link_error(t, p)
    \/ /\ TouchesLink(p)
       /\ \E t1 \in {set_attrs(IF TouchesClient(p) THEN apply_client_link(t, p) ELSE t, p)} :
              \/ hardware_link_error(t1, p)
              \/ flat_rate_error(apply_hardware_link(t1, p), p)

\* update_ticket: the ticket object when db.commit() is reached
update_fields(t, p) ==
    The({ensure_calculated_fields(t4, ~NonBlank(t4.invoiced_total)) :
         t4 \in {IF TouchesLink(p)
                 THEN apply_flat_rate_fields(apply_hardware_link(t3, p), p) ELSE t3 :
                 t3 \in {IF TouchesTime(p) THEN apply_time_math(t2, p) ELSE t2 :
                         t2 \in {set_attrs(IF TouchesClient(p)
                                           THEN apply_client_link(t, p) ELSE t, p)}}}})

\* the mutant of update_ticket_row whose changes reach the store although
\* validation failed
update_ticket_row_partial(t, p) == update_fields(t, p)

\* update_ticket: the stored row after the call; a ValueError leaves the
\* session's changes uncommitted and the request's session is closed
update_ticket_row(t, p) ==
    IF update_error(t, p) THEN t ELSE update_fields(t, p)

----------------------------------------------------------------------------
(* Inventory Ledger: app/crud/inventory.py.                                *)

\* get_event_by_ticket: the rows .first() can return (no ORDER BY)
get_event_by_ticket(evs, ticket_id) == {e \in evs : e.ticket_id = ticket_id}

\* record_inventory_event, for a non-zero change
record_inventory_event(evs, hardware_id, change, source, ticket_id, counterparty_type, actual_cost, sale_price) ==
    LET unit_cost == normalize_amount(actual_cost)
        unit_sale == normalize_amount(sale_price)
    IN  evs \cup {[id |-> NextId(evs), hardware_id |-> hardware_id,
                   change |-> change, source |-> source, ticket_id |-> ticket_id,
                   counterparty_type |-> counterparty_type,
                   actual_cost |-> total_value(unit_cost, change),
                   unit_cost |-> unit_cost,
                   sale_price_total |-> total_value(unit_sale, change),
                   sale_unit_price |-> unit_sale]}

\* a ledger with one more ticket event, stored under the given id
insert_usage_event_row(evs, id, ticket_id, hardware_id, quantity, sale_price, acquisition_cost) ==
    evs \cup {[id |-> id, hardware_id |-> hardware_id, change |-> 0 - Abs(quantity),
               source |-> "ticket", ticket_id |-> ticket_id, counterparty_type |-> "",
               actual_cost |-> total_value(normalize_amount(acquisition_cost), quantity),
               unit_cost |-> normalize_amount(acquisition_cost),
               sale_price_total |-> total_value(normalize_amount(sale_price), quantity),
               sale_unit_price |-> normalize_amount(sale_price)]}

\* delete_event
delete_event(evs, e) == evs \ {e}

\* the mutant of overwrite_usage_event that replaces the row by a new one
overwrite_usage_event_reinsert(evs, existing, hardware_id, quantity, sale_price, acquisition_cost) ==
    insert_usage_event_row(evs \ {existing}, NextId(evs), existing.ticket_id, hardware_id,
                           quantity, sale_price, acquisition_cost)

\* ensure_ticket_usage_event when the lookup returned `existing`
overwrite_usage_event(evs, existing, hardware_id, quantity, sale_price, acquisition_cost) ==
    LET change == 0 - Abs(quantity)
        unit_sale == normalize_amount(sale_price)
        unit_cost == normalize_amount(acquisition_cost)
    IN  (evs \ {existing}) \cup
        {[existing EXCEPT !.hardware_id = hardware_id, !.change = change,
                          !.source = "ticket", !.counterparty_type = "",
                          !.actual_cost = total_value(unit_cost, change),
                          !.unit_cost = unit_cost,
                          !.sale_price_total = total_value(unit_sale, change),
                          !.sale_unit_price = unit_sale]}

\* ensure_ticket_usage_event when the lookup returned None
insert_usage_event(evs, ticket_id, hardware_id, quantity, sale_price, acquisition_cost) ==
    record_inventory_event(evs, hardware_id, 0 - Abs(quantity), "ticket", ticket_id,
                           "", normalize_amount(acquisition_cost),
                           normalize_amount(sale_price))

\* create_entry / update_ticket: the sale total handed to the ledger
usage_sale_total(t) ==
    FloatTimes(money_to_float(t.hardware_sales_price),
               IF t.hardware_quantity # NoInt THEN t.hardware_quantity ELSE 1)

\* create_entry / update_ticket: the cost total handed to the ledger
usage_cost_total(t) ==
    FloatTimes(IF HwExists(t.hardware_id)
               THEN money_to_float(HwRow(t.hardware_id).acquisition_cost) ELSE NULL,
               IF t.hardware_quantity # NoInt THEN t.hardware_quantity ELSE 1)

usage_quantity(t) == IF t.hardware_quantity # NoInt THEN t.hardware_quantity ELSE 1

\* HARDWARE_LIKE_ENTRY_TYPES
HARDWARE_LIKE_ENTRY_TYPES == {"hardware", "software", "component", "accessory"}

\* create_entry / update_ticket: t.entry_type == "hardware" and t.hardware_id
consumes_hardware(t) == t.entry_type = "hardware" /\ t.hardware_id # NoInt

\* the mutant of ensure_ticket_usage_event that never looks the event up
ensure_ticket_usage_event_insert(evs, t) ==
    {insert_usage_event(evs, t.id, t.hardware_id, usage_quantity(t),
                        usage_sale_total(t), usage_cost_total(t))}

\* ensure_ticket_usage_event: the ledgers it can leave, one per row the
\* lookup can return
ensure_ticket_usage_event(evs, t) ==
    IF get_event_by_ticket(evs, t.id) = {}
    THEN {insert_usage_event(evs, t.id, t.hardware_id, usage_quantity(t),
                             usage_sale_total(t), usage_cost_total(t))}
    ELSE {overwrite_usage_event(evs, e, t.hardware_id, usage_quantity(t),
                                usage_sale_total(t), usage_cost_total(t)) :
          e \in get_event_by_ticket(evs, t.id)}

\* delete_ticket_event: the ledgers it can leave
delete_ticket_event(evs, ticket_id) ==
    IF get_event_by_ticket(evs, ticket_id) = {} THEN {evs}
    ELSE {delete_event(evs, e) : e \in get_event_by_ticket(evs, ticket_id)}

\* the mutant of update_sync that never removes a stale event
update_sync_keep(evs, t) ==
    IF consumes_hardware(t) THEN ensure_ticket_usage_event(evs, t) ELSE {evs}

\* update_ticket after its commit: synchronise the ledger
update_sync(evs, t) ==
    IF consumes_hardware(t) THEN ensure_ticket_usage_event(evs, t)
    ELSE delete_ticket_event(evs, t.id)

\* create_entry after its commit: synchronise the ledger
create_sync(evs, t) ==
    IF consumes_hardware(t) THEN ensure_ticket_usage_event(evs, t) ELSE {evs}

\* delete_ticket up to its first commit (inside delete_ticket_event):
\* the <<tickets, events>> it can leave -- the mutant deleting the row first
delete_ticket_first_row(tks, evs, id) == {<<{t \in tks : t.id # id}, evs>>}

\* delete_ticket up to its first commit (inside delete_ticket_event)
delete_ticket_first(tks, evs, id) ==
    {<<tks, e2>> : e2 \in delete_ticket_event(evs, id)}

\* delete_ticket: db.delete(ticket); db.commit()
delete_ticket_second(tks, evs, id) == <<{t \in tks : t.id # id}, evs>>

----------------------------------------------------------------------------
(* Inputs of the sequential specification.                                 *)

\* ids are SQLite rowids (largest id in the table plus one): a request that
\* would allocate a ticket id above MaxTickets or an event id above
\* MaxEventId is not taken
MaxTickets == 1
MaxEventId == MaxTickets + 1

Upc12 == <<"1", "2", "3", "4", "5", "6", "7", "8", "9", "0", "1", "2">>
Ean13 == <<"0">> \o Upc12
Txt150 == <<"1", "5", "0">>
Txt99 == <<"9", "9">>
Txt750 == <<"7", "5", "0">>
Txt45 == <<"4", "5", ".", "0", "0">>
Txt20 == <<"2", "0", ".", "0", "0">>
Txt100 == <<"1", "0", "0">>
TxtBlank == <<" ">>
TxtAbc == <<"a", "b", "c">>

InitHardware ==
    {[id |-> 1, barcode |-> Ean13, sales_price |-> Txt20, acquisition_cost |-> Txt45],
     [id |-> 2, barcode |-> Upper(TxtAbc), sales_price |-> NULL, acquisition_cost |-> NULL]}

InitClients ==
    [k \in {"acme", "brightway"} |->
        IF k = "acme"
        THEN [name |-> "Acme", support_rate |-> Txt100, contract |-> FALSE]
        ELSE [name |-> "Brightway", support_rate |-> NULL, contract |-> TRUE]]

Opt(p, k, values) == {p} \cup {With(p, k, v) : v \in values}

RECURSIVE OptAll(_, _)
\* every payload that extends one of `ps` by any of the optional keys of
\* `spec`, a sequence of <<key, values>>
OptAll(ps, spec) ==
    IF spec = <<>> THEN ps
    ELSE OptAll(UNION {Opt(p, spec[1][1], spec[1][2]) : p \in ps}, Tail(spec))

\* timestamps are minutes on one clock: every ticket starts at minute 1
CreateBase(client_key) ==
    With(With(EmptyPayload, "client_key", client_key), "start_iso", 1)

\* payloads of the ledger specification: hardware and hardware-like tickets
\* of one client with the invoice total given up front, linked by id or by
\* barcode, and one payload for every validation failure
LedgerBase == With(CreateBase("acme"), "invoiced_total", Txt99)

LedgerCreatePayloads ==
    OptAll({With(With(LedgerBase, "entry_type", "hardware"), "hardware_id", h) : h \in {1, 2}},
           <<<<"hardware_quantity", {2}>>, <<"hardware_sales_price", {Txt150}>>>>)
    \cup {With(LedgerBase, "entry_type", "hardware"),
          With(With(LedgerBase, "entry_type", "hardware"), "hardware_barcode", Upc12),
          With(LedgerBase, "entry_type", "software")}
    \cup {With(With(With(LedgerBase, "entry_type", e), "hardware_id", 1),
               "hardware_quantity", 2) : e \in {"software", "component", "accessory"}}
    \cup {With(LedgerBase, "client_key", "ghost"),
          With(LedgerBase, "client_key", ""),
          With(With(EmptyPayload, "start_iso", 1), "client", "Walk-in"),
          With(With(With(LedgerBase, "entry_type", "hardware"), "hardware_id", 1),
               "hardware_quantity", 0),
          With(LedgerBase, "entry_type", "deployment_flat_rate"),
          With(With(With(LedgerBase, "entry_type", "deployment_flat_rate"),
                    "flat_rate_amount", Txt750), "flat_rate_quantity", 0)}

\* hardware id 9 is in no catalog
LedgerUpdatePayloads ==
    OptAll({EmptyPayload},
           <<<<"entry_type", {"hardware", "software"}>>,
             <<"hardware_id", {1, 2}>>,
             <<"hardware_quantity", {2, 3}>>>>)
    \cup {With(EmptyPayload, "hardware_quantity", 1),
          With(EmptyPayload, "entry_type", "time"),
          With(EmptyPayload, "hardware_id", 9),
          With(EmptyPayload, "hardware_sales_price", Txt150),
          With(EmptyPayload, "hardware_barcode", Upc12),
          With(EmptyPayload, "hardware_quantity", 0),
          With(EmptyPayload, "entry_type", "deployment_flat_rate"),
          With(EmptyPayload, "client_key", "ghost"),
          With(EmptyPayload, "client_key", "")}

\* payloads of the billing specification: time and hardware tickets whose
\* invoice total is given, left out or blanked
BillingCreatePayloads ==
    OptAll({CreateBase("acme"),
            With(With(CreateBase("acme"), "entry_type", "hardware"), "hardware_id", 1)},
           <<<<"invoiced_total", {Txt99}>>>>)

BillingUpdatePayloads ==
    {With(EmptyPayload, "hardware_quantity", 2),
     With(With(EmptyPayload, "entry_type", "hardware"), "hardware_id", 1),
     With(EmptyPayload, "entry_type", "time"),
     With(EmptyPayload, "invoiced_total", Txt99),
     With(EmptyPayload, "invoiced_total", TxtBlank)}

SupportRates == {NULL, Txt100}

----------------------------------------------------------------------------
(* The sequential specification: one request at a time, each handler one   *)
(* step, delete_ticket one step per commit.                                *)

\* what the last request was: its handler, the ticket id it was about,
\* whether it returned normally, whether it removed a ledger event
Outcome(op, id, ok) == [op |-> op, id |-> id, ok |-> ok, dropped |-> FALSE]

Dropped(op, id, before, after) ==
    [op |-> op, id |-> id, ok |-> TRUE, dropped |-> (before \ after # {})]

\* no worker threads: one request at a time
InitWorkers == <<>>

Init ==
    /\ hardware = InitHardware
    /\ tickets = {}
    /\ events = {}
    /\ clients = InitClients
    /\ projects = {}
    /\ last = Outcome("init", NoInt, TRUE)
    /\ pc = "idle"
    /\ cur = NoInt
    /\ workers = InitWorkers

\* POST /api/v1/tickets: create_entry
CreateEntry(p) ==
    /\ pc = "idle"
    /\ NextId(tickets) <= MaxTickets
    /\ IF create_error(p)
       THEN /\ UNCHANGED <<tickets, events>>
            /\ last' = Outcome("create_entry", NoInt, FALSE)
       ELSE \E t \in {create_row(p, NextId(tickets))} :
                /\ tickets' = tickets \cup {t}
                /\ events' \in create_sync(events, t)
                /\ last' = Outcome("create_entry", t.id, TRUE)
    /\ \A e \in events' : e.id <= MaxEventId
    /\ UNCHANGED <<hardware, clients, projects, pc, cur, workers>>

\* PATCH /api/v1/tickets/{id}: update_ticket
UpdateTicket(t, p) ==
    \E row \in {update_ticket_row(t, p)} :
        /\ pc = "idle"
        /\ tickets' = (tickets \ {t}) \cup {row}
        /\ IF update_error(t, p)
           THEN /\ UNCHANGED events
                /\ last' = Outcome("update_ticket", t.id, FALSE)
           ELSE /\ events' \in update_sync(events, row)
                /\ last' = Dropped("update_ticket", t.id, events, events')
        /\ \A e \in events' : e.id <= MaxEventId
        /\ UNCHANGED <<hardware, clients, projects, pc, cur, workers>>

\* DELETE /api/v1/tickets/{id}: delete_ticket, to its first commit
DeleteTicketBegin(t) ==
    /\ pc = "idle"
    /\ \E db \in delete_ticket_first(tickets, events, t.id) :
           tickets' = db[1] /\ events' = db[2]
    /\ pc' = "delete_ticket"
    /\ cur' = t.id
    /\ last' = Dropped("delete_ticket_event", t.id, events, events')
    /\ UNCHANGED <<hardware, clients, projects, workers>>

\* delete_ticket, its second commit
DeleteTicketEnd ==
    /\ pc = "delete_ticket"
    /\ tickets' = delete_ticket_second(tickets, events, cur)[1]
    /\ events' = delete_ticket_second(tickets, events, cur)[2]
    /\ pc' = "idle"
    /\ cur' = NoInt
    /\ last' = [last EXCEPT !.op = "delete_ticket"]
    /\ UNCHANGED <<hardware, clients, projects, workers>>

\* GET /api/v1/tickets: list_tickets
ListTickets ==
    /\ pc = "idle"
    /\ tickets' = {ensure_calculated_fields(t, TRUE) : t \in tickets}
    /\ last' = Outcome("list_tickets", NoInt, TRUE)
    /\ UNCHANGED <<hardware, events, clients, projects, pc, cur, workers>>

\* list_active_tickets without the entry_type condition of its query
active_rows_any_type(tks) == {t \in tks : t.end_iso = NoInt}

\* list_active_tickets: the rows its query selects
active_rows(tks) == {t \in tks : t.end_iso = NoInt /\ t.entry_type = "time"}

\* GET /api/v1/tickets/active: list_active_tickets
ListActiveTickets ==
    /\ pc = "idle"
    /\ tickets' = (tickets \ active_rows(tickets))
                  \cup {ensure_calculated_fields(t, TRUE) : t \in active_rows(tickets)}
    /\ last' = Outcome("list_active_tickets", NoInt, TRUE)
    /\ UNCHANGED <<hardware, events, clients, projects, pc, cur, workers>>

\* the client directory file is edited (outside the engine)
EditSupportRate(k, rate) ==
    /\ pc = "idle"
    /\ clients[k].support_rate # rate
    /\ clients' = [clients EXCEPT ![k].support_rate = rate]
    /\ last' = Outcome("edit_client", NoInt, TRUE)
    /\ UNCHANGED <<hardware, tickets, events, projects, pc, cur, workers>>

\* the ledger specification: tickets that consume hardware, created,
\* updated and deleted against a fixed catalog
Next ==
    \/ \E p \in LedgerCreatePayloads : CreateEntry(p)
    \/ \E t \in tickets, p \in LedgerUpdatePayloads : UpdateTicket(t, p)
    \/ \E t \in tickets : DeleteTicketBegin(t)
    \/ DeleteTicketEnd

Spec == Init /\ [][Next]_vars

\* the billing specification: validation, calculated values, invoice totals
NextBilling ==
    \/ \E p \in BillingCreatePayloads : CreateEntry(p)
    \/ \E t \in tickets, p \in BillingUpdatePayloads : UpdateTicket(t, p)
    \/ ListTickets
    \/ ListActiveTickets
    \/ \E rate \in SupportRates : EditSupportRate("acme", rate)

SpecBilling == Init /\ [][NextBilling]_vars

----------------------------------------------------------------------------
(* Hardware Catalog: app/crud/hardware.py.  The hardware table has a       *)
(* UNIQUE index on the stored barcode; a commit that would break it raises *)
(* IntegrityError and stores nothing.                                      *)

\* the UNIQUE index on hardware.barcode is broken by `rows`
unique_violation(rows) ==
    \E a \in rows, b \in rows : a.id # b.id /\ a.barcode = b.barcode

\* create_hardware raises ValueError
create_hardware_error(raw) == normalize_barcode(raw) = NULL

\* create_hardware: the table it asks the commit to store
create_hardware_rows(rows, raw) ==
    rows \cup {[id |-> NextId(rows), barcode |-> normalize_barcode(raw),
                sales_price |-> NULL, acquisition_cost |-> NULL]}

\* update_hardware with a {"barcode": raw} payload raises ValueError
update_hardware_error(raw) == normalize_barcode(raw) = NULL

\* update_hardware with a {"barcode": raw} payload: the table it asks the
\* commit to store
update_hardware_rows(rows, item, raw) ==
    (rows \ {item}) \cup {[item EXCEPT !.barcode = normalize_barcode(raw)]}

\* delete_hardware
delete_hardware(rows, item) == rows \ {item}

\* _normalize_existing_barcodes: what the loop leaves of one item.  The
\* conflict query reads the table as stored: the session does not autoflush,
\* so the rewrites pending on other items are not in it.
normalized_item(rows, item) ==
    LET normalized == normalize_barcode(item.barcode)
        conflict == \E r \in rows : r.id # item.id /\ r.barcode = normalized
    IN  IF normalized = NULL \/ normalized = item.barcode THEN item
        ELSE IF conflict THEN item
        ELSE [item EXCEPT !.barcode = normalized]

\* _normalize_existing_barcodes: the table it asks the commit to store
normalize_existing_barcodes(rows, items) ==
    (rows \ items) \cup {normalized_item(rows, item) : item \in items}

\* db.commit(): the table afterwards
commit(rows, pending) == IF unique_violation(pending) THEN rows ELSE pending

----------------------------------------------------------------------------
(* The catalog specification: a table that may hold rows written before    *)
(* barcodes were normalised on write (tests/test_inventory.py builds one),  *)
(* then create, update, delete, list and get.                              *)

MaxLegacyRows == 2
MaxHardware == 3

TxtLowerAb == <<"a", "b">>
TxtMixedAb == <<"a", "B">>

\* stored barcodes of legacy rows, in id order
LegacyBarcodes == <<Upc12, TxtLowerAb, TxtMixedAb>>

\* the tables of at most MaxLegacyRows legacy rows
LegacyCatalogs ==
    {{[id |-> i, barcode |-> LegacyBarcodes[i], sales_price |-> NULL,
       acquisition_cost |-> NULL] : i \in ids} :
        ids \in {s \in SUBSET (1..Len(LegacyBarcodes)) : Cardinality(s) <= MaxLegacyRows}}

\* barcodes as clients send them
RawBarcodes == {Upc12, Ean13, TxtLowerAb, Upper(TxtLowerAb), TxtBlank}

InitCatalog ==
    /\ hardware \in LegacyCatalogs
    /\ tickets = {}
    /\ events = {}
    /\ clients = InitClients
    /\ projects = {}
    /\ last = Outcome("init", NoInt, TRUE)
    /\ pc = "idle"
    /\ cur = NoInt
    /\ workers = InitWorkers

\* POST /api/v1/hardware: create_hardware
CreateHardware(raw) ==
    LET pending == create_hardware_rows(hardware, raw)
    IN  /\ NextId(hardware) <= MaxHardware
        /\ IF create_hardware_error(raw) \/ unique_violation(pending)
           THEN /\ UNCHANGED hardware
                /\ last' = Outcome("create_hardware", NoInt, FALSE)
           ELSE /\ hardware' = commit(hardware, pending)
                /\ last' = Outcome("create_hardware", NextId(hardware), TRUE)
        /\ UNCHANGED <<tickets, events, clients, projects, pc, cur, workers>>

\* PATCH /api/v1/hardware/{id}: update_hardware
UpdateHardware(item, raw) ==
    LET pending == update_hardware_rows(hardware, item, raw)
    IN  /\ IF update_hardware_error(raw) \/ unique_violation(pending)
           THEN /\ UNCHANGED hardware
                /\ last' = Outcome("update_hardware", item.id, FALSE)
           ELSE /\ hardware' = commit(hardware, pending)
                /\ last' = Outcome("update_hardware", item.id, TRUE)
        /\ UNCHANGED <<tickets, events, clients, projects, pc, cur, workers>>

\* DELETE /api/v1/hardware/{id}: delete_hardware
DeleteHardware(item) ==
    /\ hardware' = delete_hardware(hardware, item)
    /\ last' = Outcome("delete_hardware", item.id, TRUE)
    /\ UNCHANGED <<tickets, events, clients, projects, pc, cur, workers>>

\* list_hardware: every row is on the page; IntegrityError when the commit
\* of the rewrites breaks the UNIQUE index
ListHardware ==
    LET pending == normalize_existing_barcodes(hardware, hardware)
    IN  /\ hardware' = commit(hardware, pending)
        /\ last' = Outcome("list_hardware", NoInt, ~unique_violation(pending))
        /\ UNCHANGED <<tickets, events, clients, projects, pc, cur, workers>>

\* get_hardware of a stored item
GetHardware(item) ==
    LET pending == normalize_existing_barcodes(hardware, {item})
    IN  /\ hardware' = commit(hardware, pending)
        /\ last' = Outcome("get_hardware", item.id, ~unique_violation(pending))
        /\ UNCHANGED <<tickets, events, clients, projects, pc, cur, workers>>

NextCatalog ==
    \/ \E raw \in RawBarcodes : CreateHardware(raw)
    \/ \E item \in hardware, raw \in RawBarcodes : UpdateHardware(item, raw)
    \/ \E item \in hardware : DeleteHardware(item)
    \/ ListHardware
    \/ \E item \in hardware : GetHardware(item)

SpecCatalog == InitCatalog /\ [][NextCatalog]_vars

----------------------------------------------------------------------------
(* The concurrent specification: the API handlers are plain functions, run  *)
(* by the server on worker threads, each with its own session.  A worker   *)
(* runs update_ticket one database round trip at a time: the commit of the *)
(* ticket row, the lookup of the ticket's event, the write to the ledger.  *)

NumWorkers == 2
Workers == 1..NumWorkers

\* a worker between requests; `held` is the ticket object of its session,
\* `found` what get_event_by_ticket gave it (each empty or a singleton)
IdleWorker == [pc |-> "idle", held |-> {}, found |-> {}]

ConcCreatePayloads ==
    {With(LedgerBase, "entry_type", "software"),
     With(With(LedgerBase, "entry_type", "hardware"), "hardware_id", 1)}

ConcUpdatePayloads ==
    {With(With(EmptyPayload, "entry_type", "hardware"), "hardware_id", 1),
     With(EmptyPayload, "hardware_quantity", 2),
     With(EmptyPayload, "hardware_quantity", 0),
     With(EmptyPayload, "entry_type", "software")}

InitConc ==
    /\ hardware = InitHardware
    /\ tickets = {}
    /\ events = {}
    /\ clients = InitClients
    /\ projects = {}
    /\ last = Outcome("init", NoInt, TRUE)
    /\ pc = "idle"
    /\ cur = NoInt
    /\ workers = [w \in Workers |-> IdleWorker]

\* update_ticket up to db.commit() / db.refresh(t)
UpdateCommit(w, t, p) ==
    /\ workers[w].pc = "idle"
    /\ IF update_error(t, p)
       THEN /\ UNCHANGED <<tickets, workers>>
            /\ last' = Outcome("update_ticket", t.id, FALSE)
       ELSE \E row \in {update_fields(t, p)} :
                /\ tickets' = (tickets \ {t}) \cup {row}
                /\ workers' = [workers EXCEPT ![w] =
                                   [pc |-> "lookup", held |-> {row}, found |-> {}]]
                /\ UNCHANGED last
    /\ UNCHANGED <<hardware, events, clients, projects, pc, cur>>

\* get_event_by_ticket inside ensure_ticket_usage_event / delete_ticket_event
UpdateLookup(w) ==
    /\ workers[w].pc = "lookup"
    /\ \E t \in workers[w].held :
           \E found \in IF get_event_by_ticket(events, t.id) = {} THEN {{}}
                        ELSE {{e} : e \in get_event_by_ticket(events, t.id)} :
               workers' = [workers EXCEPT ![w].pc = "write", ![w].found = found]
    /\ UNCHANGED <<hardware, tickets, events, clients, projects, last, pc, cur>>

\* the ledger after the write of ensure_ticket_usage_event /
\* delete_ticket_event, given what the lookup found; a found row that is no
\* longer stored makes the UPDATE or DELETE match nothing
ledger_write(evs, t, found) ==
    IF consumes_hardware(t)
    THEN IF found = {}
         THEN insert_usage_event(evs, t.id, t.hardware_id, usage_quantity(t),
                                 usage_sale_total(t), usage_cost_total(t))
         ELSE UNION {overwrite_usage_event(evs, e, t.hardware_id, usage_quantity(t),
                                           usage_sale_total(t), usage_cost_total(t)) :
                     e \in {x \in evs : x.id \in {f.id : f \in found}}} \cup
              (IF \E x \in evs : x.id \in {f.id : f \in found} THEN {} ELSE evs)
    ELSE {x \in evs : x.id \notin {f.id : f \in found}}

\* the write and its commit: the end of update_ticket
UpdateWrite(w) ==
    /\ workers[w].pc = "write"
    /\ \E t \in workers[w].held :
           /\ events' = ledger_write(events, t, workers[w].found)
           /\ last' = Outcome("update_ticket", t.id, TRUE)
    /\ \A e \in events' : e.id <= MaxEventId
    /\ workers' = [workers EXCEPT ![w] = IdleWorker]
    /\ UNCHANGED <<hardware, tickets, clients, projects, pc, cur>>

NextConc ==
    \/ \E p \in ConcCreatePayloads : CreateEntry(p)
    \/ \E w \in Workers, t \in tickets, p \in ConcUpdatePayloads : UpdateCommit(w, t, p)
    \/ \E w \in Workers : UpdateLookup(w)
    \/ \E w \in Workers : UpdateWrite(w)

SpecConc == InitConc /\ [][NextConc]_vars

----------------------------------------------------------------------------
(* The inventory specification: the ledger written by the tickets and by   *)
(* the stock routes (receive, use, delete an event) side by side.          *)

\* the mutant of record_error that accepts every change
record_error_never(change) == FALSE

\* record_inventory_event raises ValueError: `if not change`
record_error(change) == change = 0

\* signed quantities handed to record_inventory_event
Changes == {0, 2}

InvCreatePayloads ==
    {CreateBase("acme"),
     With(With(CreateBase("acme"), "entry_type", "hardware"), "hardware_id", 1),
     With(With(With(CreateBase("acme"), "entry_type", "hardware"), "hardware_id", 1),
          "hardware_quantity", 0 - 2)}

InvUpdatePayloads ==
    {With(EmptyPayload, "completed", 1),
     With(EmptyPayload, "hardware_quantity", 2),
     With(EmptyPayload, "hardware_quantity", 0),
     With(With(EmptyPayload, "entry_type", "hardware"), "hardware_id", 1),
     With(EmptyPayload, "entry_type", "time")}

\* record_inventory_event called for a stock movement of item h
RecordEvent(h, change) ==
    /\ pc = "idle"
    /\ NextId(events) <= MaxEventId
    /\ IF record_error(change)
       THEN /\ UNCHANGED events
            /\ last' = Outcome("record_inventory_event", NoInt, FALSE)
       ELSE /\ events' = record_inventory_event(events, h.id, change, "manual", NoInt,
                                                IF change > 0 THEN "vendor" ELSE "",
                                                IF change > 0 THEN <<45, 0>> ELSE NULL,
                                                NULL)
            /\ last' = Outcome("record_inventory_event", NextId(events), TRUE)
    /\ UNCHANGED <<hardware, tickets, clients, projects, pc, cur, workers>>

\* DELETE /api/v1/inventory/events/{id}: delete_event
DeleteEvent(e) ==
    /\ pc = "idle"
    /\ events' = delete_event(events, e)
    /\ last' = Dropped("delete_event", e.id, events, events')
    /\ UNCHANGED <<hardware, tickets, clients, projects, pc, cur, workers>>

NextInventory ==
    \/ \E p \in InvCreatePayloads : CreateEntry(p)
    \/ \E t \in tickets, p \in InvUpdatePayloads : UpdateTicket(t, p)
    \/ \E h \in {HwRow(1)}, change \in Changes : RecordEvent(h, change)
    \/ \E e \in events : DeleteEvent(e)

SpecInventory == Init /\ [][NextInventory]_vars

----------------------------------------------------------------------------
(* The concurrent catalog specification: a self-healing read runs its loop *)
(* of conflict queries, then commits its rewrites; create_hardware of      *)
(* another request can commit in between.                                  *)

\* the rows _normalize_existing_barcodes rewrote in the session (dirty)
dirty_items(rows, items) == normalize_existing_barcodes(rows, items) \ rows

\* the flush of the session's dirty rows: UPDATE ... WHERE id = :id
flush_dirty(rows, dirty) ==
    {r \in rows : \A d \in dirty : d.id # r.id}
        \cup {d \in dirty : \E r \in rows : r.id = d.id}

InitCatalogConc ==
    /\ hardware \in LegacyCatalogs
    /\ tickets = {}
    /\ events = {}
    /\ clients = InitClients
    /\ projects = {}
    /\ last = Outcome("init", NoInt, TRUE)
    /\ pc = "idle"
    /\ cur = NoInt
    /\ workers = [w \in Workers |-> IdleWorker]

\* list_hardware / get_hardware up to the end of the loop of
\* _normalize_existing_barcodes; `held` are the dirty rows, `found` the
\* table as the conflict queries read it.  Nothing dirty: the read returns.
HealCheck(w, items) ==
    /\ workers[w].pc = "idle"
    /\ items # {}
    /\ \E dirty \in {dirty_items(hardware, items)} :
           IF dirty = {}
           THEN /\ last' = Outcome("list_hardware", NoInt, TRUE)
                /\ UNCHANGED workers
           ELSE /\ workers' = [workers EXCEPT ![w] =
                                   [pc |-> "commit", held |-> dirty, found |-> hardware]]
                /\ UNCHANGED last
    /\ UNCHANGED <<hardware, tickets, events, clients, projects, pc, cur>>

\* db.commit() of _normalize_existing_barcodes: no except clause surrounds
\* it, so an IntegrityError ends the read
HealCommit(w) ==
    /\ workers[w].pc = "commit"
    /\ \E pending \in {flush_dirty(hardware, workers[w].held)} :
           /\ hardware' = commit(hardware, pending)
           /\ last' = Outcome("list_hardware", NoInt, ~unique_violation(pending))
    /\ workers' = [workers EXCEPT ![w] = IdleWorker]
    /\ UNCHANGED <<tickets, events, clients, projects, pc, cur>>

\* create_hardware of another request, while reads are in flight
ConcCreateHardware(raw) ==
    /\ NextId(hardware) <= MaxHardware
    /\ ~create_hardware_error(raw)
    /\ \E pending \in {create_hardware_rows(hardware, raw)} :
           /\ hardware' = commit(hardware, pending)
           /\ last' = Outcome("create_hardware",
                              IF unique_violation(pending) THEN NoInt ELSE NextId(hardware),
                              ~unique_violation(pending))
    /\ UNCHANGED <<tickets, events, clients, projects, pc, cur, workers>>

NextCatalogConc ==
    \/ \E w \in Workers : HealCheck(w, hardware)
    \/ \E w \in Workers, item \in hardware : HealCheck(w, {item})
    \/ \E w \in Workers : HealCommit(w)
    \/ \E raw \in RawBarcodes : ConcCreateHardware(raw)

SpecCatalogConc == InitCatalogConc /\ [][NextCatalogConc]_vars

----------------------------------------------------------------------------
(* Ticket synchronisation with the ledger, checked under Spec.             *)

\* C1: after completed create_entry / update_ticket calls, every
\* hardware-like ticket with hardware_id set has exactly one inventory event
\* with its ticket_id, and that event's change is -hardware_quantity.
C1_LinkedTicketHasOneEvent ==
    pc = "idle" =>
        \A t \in tickets :
            (t.entry_type \in HARDWARE_LIKE_ENTRY_TYPES /\ t.hardware_id # NoInt) =>
                /\ Cardinality(get_event_by_ticket(events, t.id)) = 1
                /\ \A e \in get_event_by_ticket(events, t.id) :
                       e.change = 0 - t.hardware_quantity

\* a linked hardware ticket whose quantity an update raised to 2, with its
\* event following
C1_Witness ==
    /\ pc = "idle" /\ last.op = "update_ticket" /\ last.ok
    /\ \E t \in tickets :
           /\ t.id = last.id /\ t.entry_type = "hardware" /\ t.hardware_id # NoInt
           /\ t.hardware_quantity = 2
           /\ \E e \in events : e.ticket_id = t.id /\ e.change = 0 - 2

\* C2: when update_ticket leaves the ticket with a non-hardware-like
\* entry_type or with hardware_id cleared, no inventory event references
\* the ticket afterwards.
C2_StaleEventRemoved ==
    (pc = "idle" /\ last.op = "update_ticket" /\ last.ok) =>
        \A t \in tickets :
            (t.id = last.id
             /\ (t.entry_type \notin HARDWARE_LIKE_ENTRY_TYPES \/ t.hardware_id = NoInt)) =>
                get_event_by_ticket(events, t.id) = {}

\* an update turned a ticket into a time ticket and removed its event
C2_Witness ==
    /\ pc = "idle" /\ last.op = "update_ticket" /\ last.ok /\ last.dropped
    /\ \E t \in tickets :
           /\ t.id = last.id /\ t.entry_type = "time"
           /\ get_event_by_ticket(events, t.id) = {}

\* C3: in every state, the one between delete_ticket's two commits
\* included, every event that carries a ticket_id carries that of a stored
\* ticket; once delete_ticket has returned no event references the id.
C3_NoOrphanEvent ==
    /\ \A e \in events : e.ticket_id # NoInt => \E t \in tickets : t.id = e.ticket_id
    /\ last.op = "delete_ticket" => get_event_by_ticket(events, last.id) = {}

\* between the two commits: the event is gone, the row is still stored
C3_Witness ==
    /\ pc = "delete_ticket" /\ last.op = "delete_ticket_event" /\ last.dropped
    /\ \E t \in tickets : t.id = cur /\ consumes_hardware(t)
    /\ get_event_by_ticket(events, cur) = {}

\* C4: a create_entry or update_ticket that raises a validation error leaves
\* the stored ticket rows and inventory events exactly as they were.
C4_RejectedLeavesStoreUnchanged ==
    [][(pc = "idle" /\ pc' = "idle" /\ ~last'.ok) =>
           (tickets' = tickets /\ events' = events)]_vars

\* a rejected update of a ticket that has a ledger event
C4_Witness ==
    /\ pc = "idle" /\ last.op = "update_ticket" /\ ~last.ok
    /\ \E t \in tickets : t.id = last.id /\ get_event_by_ticket(events, t.id) # {}

\* C5: the event synchronised for a linked hardware ticket with unit price
\* p, quantity q and catalog acquisition cost c stores sale_price_total =
\* p * q and actual_cost = c * q.
C5_EventTotals ==
    pc = "idle" =>
        \A t \in tickets :
            (consumes_hardware(t) /\ HwExists(t.hardware_id)) =>
                \A e \in get_event_by_ticket(events, t.id) :
                    /\ e.sale_price_total =
                           FloatTimes(money_to_float(t.hardware_sales_price),
                                      t.hardware_quantity)
                    /\ e.actual_cost =
                           FloatTimes(money_to_float(HwRow(t.hardware_id).acquisition_cost),
                                      t.hardware_quantity)

\* p = 150, q = 2, c = 45: the event stores 600 and 180
C5_Witness ==
    /\ pc = "idle" /\ last.op = "create_entry" /\ last.ok
    /\ \E t \in tickets : \E e \in get_event_by_ticket(events, t.id) :
           /\ t.id = last.id /\ t.hardware_sales_price = Txt150 /\ t.hardware_quantity = 2
           /\ HwExists(t.hardware_id) /\ HwRow(t.hardware_id).acquisition_cost = Txt45
           /\ e.sale_price_total = <<600, 0>> /\ e.actual_cost = <<180, 0>>

\* C6: after create_entry / update_ticket every hardware-like ticket has
\* calculated_value = the currency formatting of hardware_sales_price *
\* hardware_quantity, and none when it has no sales price.
C6_HardwareLikeValue ==
    (pc = "idle" /\ last.op \in {"create_entry", "update_ticket"} /\ last.ok) =>
        \A t \in tickets :
            (t.id = last.id /\ t.entry_type \in HARDWARE_LIKE_ENTRY_TYPES) =>
                t.calculated_value =
                    IF to_decimal(t.hardware_sales_price) = NULL THEN NULL
                    ELSE format_decimal(DecTimes(to_decimal(t.hardware_sales_price),
                                                 t.hardware_quantity))

\* a software ticket created with hardware 1 (20.00 a unit) and quantity 2:
\* link, price and quantity are gone and the value is hours x rate
C6_Witness ==
    /\ pc = "idle" /\ last.op = "create_entry" /\ last.ok
    /\ \E t \in tickets :
           /\ t.id = last.id /\ t.entry_type = "software"
           /\ t.hardware_id = NoInt /\ t.hardware_sales_price = NULL
           /\ t.calculated_value = <<"0", ".", "0", "0">>

----------------------------------------------------------------------------
(* Invoice totals, checked under SpecBilling.                              *)

\* invoiced_total of ticket t is kept by the step
Kept(t) == \A u \in tickets' : u.id = t.id => u.invoiced_total = t.invoiced_total

----------------------------------------------------------------------------
(* The ledger under concurrent requests, checked under SpecConc.           *)

\* C8: in every state, under every interleaving of two requests that
\* synchronise the ledger for the same ticket, at most one inventory event
\* references any ticket_id.
C8_OneEventPerTicket ==
    \A a \in events, b \in events :
        (a.ticket_id # NoInt /\ a.ticket_id = b.ticket_id) => a = b

\* both workers are done and the ticket has two events
C8_Witness ==
    /\ \A w \in Workers : workers[w].pc = "idle"
    /\ \E t \in tickets : Cardinality(get_event_by_ticket(events, t.id)) = 2

----------------------------------------------------------------------------
(* The catalog's barcodes, checked under SpecCatalog.                      *)

\* no two items of `rows` have barcodes with the same normalized form
CanonUnique(rows) ==
    \A a \in rows, b \in rows :
        a.id # b.id => normalize_barcode(a.barcode) # normalize_barcode(b.barcode)

\* an item of `rows` other than `self` has a barcode with raw's normalized form
Owned(rows, raw, self) ==
    \E r \in rows : r.id # self /\ normalize_barcode(r.barcode) = normalize_barcode(raw)

\* C9: create_hardware, update_hardware and the self-healing reads keep the
\* normalized barcodes of the items pairwise different, and a create or
\* update whose normalized barcode another item owns is rejected and leaves
\* the catalog unchanged.
C9_CanonicalUniqueness ==
    [][/\ CanonUnique(hardware) => CanonUnique(hardware')
       /\ \A raw \in RawBarcodes :
              /\ (CreateHardware(raw) /\ Owned(hardware, raw, NoInt))
                     => (hardware' = hardware /\ ~last'.ok)
              /\ \A item \in hardware :
                     (UpdateHardware(item, raw) /\ Owned(hardware, raw, item.id))
                         => (hardware' = hardware /\ ~last'.ok)]_vars

\* create_hardware accepted 123456789012 next to the legacy row that stores
\* it: two items, one normalized form
C9_Witness ==
    /\ last.op = "create_hardware" /\ last.ok
    /\ \E a \in hardware, b \in hardware :
           a.barcode = Upc12 /\ b.barcode = Ean13 /\ b.id = last.id

\* C10: list_hardware / get_hardware never fail; after them a row they
\* returned stores its normalized barcode unless another row owns that
\* value; no two rows store the same barcode.
C10_SelfHealingRead ==
    /\ last.op \in {"list_hardware", "get_hardware"} => last.ok
    /\ last.op \in {"list_hardware", "get_hardware"} =>
           \A h \in hardware :
               (/\ last.op = "get_hardware" => h.id = last.id
                /\ normalize_barcode(h.barcode) # h.barcode) =>
                   \E r \in hardware : r.id # h.id /\ r.barcode = normalize_barcode(h.barcode)
    /\ ~unique_violation(hardware)

\* list_hardware failed on two legacy rows with one normalized form
C10_Witness ==
    /\ last.op = "list_hardware" /\ ~last.ok
    /\ \E a \in hardware, b \in hardware :
           a.barcode = TxtLowerAb /\ b.barcode = TxtMixedAb

----------------------------------------------------------------------------
(* Self-healing reads against concurrent writers, under SpecCatalogConc.   *)

\* a row stored since worker w ran its conflict queries owns the barcode
\* one of w's pending rewrites would store
InsertedSinceCheck(w) ==
    \E d \in workers[w].held, r \in hardware :
        /\ r.barcode = d.barcode /\ r.id # d.id
        /\ \A f \in workers[w].found : f.id # r.id

\* C11: when another request inserts the same canonical barcode between the
\* uniqueness check of a self-healing read and its write, the read still
\* completes without error, and the stale barcode is left in place.
C11_ConcurrentInsertTolerated ==
    [][\A w \in Workers :
           (HealCommit(w) /\ InsertedSinceCheck(w)) =>
               (last'.ok /\ hardware' = hardware)]_vars

\* a read failed at its commit: the canonical barcode of its legacy row
\* 123456789012 was inserted by create_hardware after the conflict query
C11_Witness ==
    /\ last.op = "list_hardware" /\ ~last.ok
    /\ \E a \in hardware, b \in hardware :
           a.barcode = Upc12 /\ b.barcode = Ean13 /\ a.id < b.id
    /\ ~\E a \in hardware : a.barcode \in {TxtLowerAb, TxtMixedAb}

----------------------------------------------------------------------------
(* The ledger's events, checked under SpecInventory.                       *)

\* C12: every stored inventory event has a non-zero change;
\* record_inventory_event with change 0 fails and persists nothing, and the
\* events written for tickets by ensure_ticket_usage_event, inserted or
\* overwritten, never carry a zero change.
C12_ChangeNeverZero ==
    /\ [](\A e \in events : e.change # 0)
    /\ [][(last'.op = "record_inventory_event" /\ ~last'.ok) => events' = events]_vars

\* a zero change was rejected while the ledger holds a ticket event that an
\* update overwrote with quantity 2
C12_Witness ==
    /\ last.op = "record_inventory_event" /\ ~last.ok
    /\ \E e \in events : e.ticket_id # NoInt /\ e.change = 0 - 2

\* C13: ensure_ticket_usage_event is an idempotent upsert keyed by
\* ticket_id.  After create_entry / update_ticket of a ticket that consumes
\* hardware: an event that referenced the ticket is overwritten in place
\* under its id and no other event changes, otherwise exactly one event is
\* inserted; the change is -abs(quantity); and a second call with the same
\* arguments (an update that changes none of them) leaves the ledger as it
\* was.
C13_IdempotentUpsert ==
    [][(pc = "idle" /\ last'.op \in {"create_entry", "update_ticket"} /\ last'.ok) =>
           \A t \in tickets' :
               (t.id = last'.id /\ consumes_hardware(t)) =>
                   LET before == get_event_by_ticket(events, t.id)
                       after == get_event_by_ticket(events', t.id)
                   IN  /\ Cardinality(after) = 1
                       /\ \A e \in after : e.change = 0 - Abs(t.hardware_quantity)
                       /\ events' \ after = events \ before
                       /\ before # {} => {e.id : e \in after} = {e.id : e \in before}
                       /\ (before # {} /\ \E u \in tickets :
                               /\ u.id = t.id /\ u.entry_type = t.entry_type
                               /\ u.hardware_id = t.hardware_id
                               /\ u.hardware_quantity = t.hardware_quantity
                               /\ u.hardware_sales_price = t.hardware_sales_price)
                              => events' = events]_vars

\* update_ticket re-synchronised a completed hardware ticket whose event
\* already existed, next to a stock event
C13_Witness ==
    /\ pc = "idle" /\ last.op = "update_ticket" /\ last.ok
    /\ \E t \in tickets :
           /\ t.id = last.id /\ consumes_hardware(t) /\ t.completed = 1
           /\ t.hardware_quantity = 2
           /\ \E e \in events : e.ticket_id = t.id /\ e.change = 0 - 2
    /\ \E e \in events : e.ticket_id = NoInt

----------------------------------------------------------------------------
(* The modes specification: time, hardware-like and deployment_flat_rate   *)
(* tickets, open and closed, created, updated and listed; flat-rate        *)
(* amounts come in several written forms.                                  *)

\* amounts as "750", as "$1,234.5" and as text that is no number
FlatAmounts == {Txt750, <<"$", "1", ",", "2", "3", "4", ".", "5">>, TxtAbc}

\* a closed ticket ends at minute 20
ModeCreatePayloads ==
    {With(With(CreateBase("acme"), "entry_type", "deployment_flat_rate"),
          "flat_rate_amount", a) : a \in FlatAmounts}
    \cup {With(With(With(CreateBase("acme"), "entry_type", "deployment_flat_rate"),
                    "flat_rate_amount", Txt750), "flat_rate_quantity", 3),
          CreateBase("acme"),
          With(CreateBase("acme"), "end_iso", 20),
          With(CreateBase("acme"), "entry_type", "hardware"),
          With(With(CreateBase("acme"), "entry_type", "deployment_flat_rate"),
               "flat_rate_amount", TxtBlank)}

ModeUpdatePayloads ==
    {With(EmptyPayload, "flat_rate_quantity", 2),
     With(EmptyPayload, "flat_rate_amount", Txt99),
     With(EmptyPayload, "entry_type", "deployment_flat_rate"),
     With(With(EmptyPayload, "entry_type", "deployment_flat_rate"),
          "flat_rate_amount", Txt750),
     With(EmptyPayload, "entry_type", "time"),
     With(EmptyPayload, "end_iso", 20)}

NextModes ==
    \/ \E p \in ModeCreatePayloads : CreateEntry(p)
    \/ \E t \in tickets, p \in ModeUpdatePayloads : UpdateTicket(t, p)
    \/ ListActiveTickets

SpecModes == Init /\ [][NextModes]_vars

----------------------------------------------------------------------------
(* The helper specification: a pure helper applied to an input drawn at    *)
(* the start.  cur holds the call: the helper, its argument, what it       *)
(* returned, and what it returned when given its own result.               *)

MaxMinutes == 120
MaxBarcodeLen == 3

\* round_minutes: (elapsed_minutes, rounded_minutes, rounded_hours_str)
round_minutes(mins) ==
    <<IF mins < 0 THEN 0 ELSE mins,
      RoundedMinutes(mins),
      RoundedHours(RoundedMinutes(mins))>>

\* barcodes without a letter: every text of at most MaxBarcodeLen digits,
\* blanks and punctuation, and the runs of 11 to 13 digits of an EAN-13
\* written plain, padded, hyphenated and with a doubled blank
BarcodeInputs ==
    UNION {[1..n -> {"0", "7", " ", "-"}] : n \in 0..MaxBarcodeLen}
    \cup UNION {{d, <<" ">> \o d \o <<" ">>,
                 SubSeq(d, 1, 6) \o <<"-">> \o SubSeq(d, 7, Len(d)),
                 SubSeq(d, 1, 3) \o <<" ", " ">> \o SubSeq(d, 4, Len(d))} :
                    d \in {SubSeq(Ean13, i, j) :
                               i \in 1..3, j \in (UpcLen - 1)..(UpcLen + 1)}}

Call(fn, arg) == [fn |-> fn, arg |-> arg, result |-> NULL, again |-> NULL, done |-> FALSE]

InitHelpers ==
    /\ hardware = {}
    /\ tickets = {}
    /\ events = {}
    /\ clients = InitClients
    /\ projects = {}
    /\ last = Outcome("init", NoInt, TRUE)
    /\ pc = "idle"
    /\ cur \in {Call("round_minutes", m) : m \in (-5)..MaxMinutes}
               \cup {Call("normalize_barcode", b) : b \in BarcodeInputs}
    /\ workers = InitWorkers

\* round_minutes(mins)
RoundMinutes ==
    /\ cur.fn = "round_minutes" /\ ~cur.done
    /\ cur' = [cur EXCEPT !.result = round_minutes(cur.arg), !.done = TRUE]
    /\ last' = Outcome("round_minutes", NoInt, TRUE)
    /\ UNCHANGED <<hardware, tickets, events, clients, projects, pc, workers>>

\* normalize_barcode(raw), then normalize_barcode of what it returned
NormalizeBarcode ==
    /\ cur.fn = "normalize_barcode" /\ ~cur.done
    /\ cur' = [cur EXCEPT !.result = normalize_barcode(cur.arg),
                          !.again = normalize_barcode(normalize_barcode(cur.arg)),
                          !.done = TRUE]
    /\ last' = Outcome("normalize_barcode", NoInt, TRUE)
    /\ UNCHANGED <<hardware, tickets, events, clients, projects, pc, workers>>

NextHelpers ==
    \/ RoundMinutes
    \/ NormalizeBarcode

SpecHelpers == InitHelpers /\ [][NextHelpers]_vars

----------------------------------------------------------------------------
(* The lookup specification: the fixed catalog looked up by id and by      *)
(* barcode, through GET /api/v1/hardware/{identifier} and through the      *)
(* inventory routes.  cur holds what the request asked for.                *)

\* db.get(Hardware, identifier) with the identifier as the route passes it,
\* a text: SQLite compares the INTEGER key with a text as a number when the
\* text is one (leading zeros aside), and matches no row otherwise
get_by_key(rows, identifier) ==
    {r \in rows :
        /\ \A i \in 1..Len(identifier) : identifier[i] \in Digits
        /\ \E k \in 0..(Len(identifier) - 1) :
               /\ \A i \in 1..k : identifier[i] = "0"
               /\ SubSeq(identifier, k + 1, Len(identifier)) = NatToStr(r.id)}

RECURSIVE first_match(_, _)
\* the loop of _lookup_hardware over the aliases: the first one a row has
first_match(rows, aliases) ==
    IF aliases = <<>> THEN {}
    ELSE IF \E r \in rows : r.barcode = Head(aliases)
         THEN {r \in rows : r.barcode = Head(aliases)}
         ELSE first_match(rows, Tail(aliases))

\* _lookup_hardware: the row it returns, none when it raises 404
lookup_hardware(rows, hardware_id, barcode) ==
    IF hardware_id # NoInt /\ (\E r \in rows : r.id = hardware_id)
    THEN {r \in rows : r.id = hardware_id}
    ELSE IF barcode # NULL /\ barcode # <<>> THEN first_match(rows, barcode_aliases(barcode))
    ELSE {}

Lookup(hardware_id, identifier) == [hardware_id |-> hardware_id, identifier |-> identifier]

\* the {identifier} of the hardware route: ids and barcodes
Identifiers ==
    {<<"1">>, <<"2">>, <<"9">>, Ean13, Upc12, Upper(TxtAbc), TxtAbc,
     SubSeq(Upc12, 1, 6) \o <<"-">> \o SubSeq(Upc12, 7, 12)}

\* the targets of an InventoryAdjustment: an id, a barcode, or both
Targets ==
    {Lookup(id, NULL) : id \in {1, 2, 9}}
    \cup {Lookup(NoInt, b) : b \in Identifiers \ {<<"1">>, <<"2">>}}
    \cup {Lookup(9, Upc12), Lookup(2, Upc12)}

\* GET /api/v1/hardware/{identifier}: get_hardware
GetHardwareBy(identifier) ==
    /\ pc = "idle"
    /\ cur' = Lookup(NoInt, identifier)
    /\ IF get_by_key(hardware, identifier) = {}
       THEN /\ UNCHANGED hardware
            /\ last' = Outcome("get_hardware", NoInt, FALSE)
       ELSE \E item \in get_by_key(hardware, identifier) :
                \E pending \in {normalize_existing_barcodes(hardware, {item})} :
                    /\ hardware' = commit(hardware, pending)
                    /\ last' = Outcome("get_hardware", item.id, ~unique_violation(pending))
    /\ UNCHANGED <<tickets, events, clients, projects, pc, workers>>

\* POST /api/v1/inventory/receive: _lookup_hardware, record_inventory_event
ReceiveInventory(target) ==
    /\ pc = "idle"
    /\ NextId(events) <= MaxEventId
    /\ cur' = target
    /\ IF lookup_hardware(hardware, target.hardware_id, target.identifier) = {}
       THEN /\ UNCHANGED events
            /\ last' = Outcome("receive_inventory", NoInt, FALSE)
       ELSE \E hw \in lookup_hardware(hardware, target.hardware_id, target.identifier) :
                /\ events' = record_inventory_event(events, hw.id, 1, "api:receive",
                                                    NoInt, "", NULL, NULL)
                /\ last' = Outcome("receive_inventory", hw.id, TRUE)
    /\ UNCHANGED <<hardware, tickets, clients, projects, pc, workers>>

NextLookup ==
    \/ \E identifier \in Identifiers : GetHardwareBy(identifier)
    \/ \E target \in Targets : ReceiveInventory(target)
    \/ \E e \in events : DeleteEvent(e)

SpecLookup == Init /\ [][NextLookup]_vars

----------------------------------------------------------------------------
(* Projects: app/crud/projects.py, app/routers/api_projects.py.  A project *)
(* row is [id, client_key, client, status, finalized_at]; finalized_at is  *)
(* NoInt until the project is finalized.                                   *)

MaxProjects == 1

\* list_tickets: the rows its query selects, select(Ticket) with no condition
list_tickets_rows(tks) == tks

\* list_project_tickets(db, project_id, include_posted): the project's
\* tickets, without the posted ones when include_posted is false
list_project_tickets(tks, project_id, include_posted) ==
    {t \in tks : t.project_id = project_id /\ (include_posted \/ t.project_posted = 0)}

\* create_project raises ValueError: no client_key, or no client name for it
create_project_error(client_key) ==
    client_key = "" \/ resolve_client_name(client_key) = ""

\* create_project: the row it commits
create_project_row(id, client_key) ==
    [id |-> id, client_key |-> client_key, client |-> resolve_client_name(client_key),
     status |-> "", finalized_at |-> NoInt]

\* add_project_ticket: the payload it hands to create_entry
project_ticket_payload(project, p) ==
    With(With(With(With(p, "project_id", project.id), "project_posted", 0),
              "client_key", project.client_key), "client", project.client)

RECURSIVE post_all(_, _, _)
\* finalize_project, its loop: update_ticket(db, ticket, {"project_posted": 1})
\* for each ticket of `ids`; the <<tickets, events>> it can leave
post_all(ids, tks, evs) ==
    IF ids = {} THEN {<<tks, evs>>}
    ELSE UNION {UNION {post_all(ids \ {t.id}, (tks \ {t}) \cup {row}, e2) :
                       e2 \in update_sync(evs, row)} :
                t \in {CHOOSE t \in tks : t.id \in ids},
                row \in {update_ticket_row(CHOOSE t \in tks : t.id \in ids,
                                           With(EmptyPayload, "project_posted", 1))}}

\* finalize_project: the project row it commits
finalized_row(project) ==
    [project EXCEPT !.status = IF @ = "" THEN "finalized" ELSE @,
                    !.finalized_at = 1]

\* delete_project's loop with db.delete(ticket) alone
delete_all_keep_events(ids, tks, evs) == {<<{t \in tks : t.id \notin ids}, evs>>}

RECURSIVE delete_all(_, _, _)
\* delete_project, its first loop: delete_ticket(db, ticket) for each
\* ticket of `ids`; the <<tickets, events>> it can leave
delete_all(ids, tks, evs) ==
    IF ids = {} THEN {<<tks, evs>>}
    ELSE UNION {delete_all(ids \ {id}, delete_ticket_second(db[1], db[2], id)[1], db[2]) :
                id \in {CHOOSE i \in ids : TRUE},
                db \in delete_ticket_first(tks, evs, CHOOSE i \in ids : TRUE)}

\* delete_project, its second loop: posted tickets lose their project_id
unlink_posted(tks, project_id) ==
    {IF t.project_id = project_id /\ t.project_posted = 1
     THEN [t EXCEPT !.project_id = NoInt] ELSE t : t \in tks}

----------------------------------------------------------------------------
(* The project specification: projects created, tickets added to them and  *)
(* linked to them, updated, finalized and deleted, one request at a time.  *)

ProjectClientKeys == {"acme", "ghost"}

ProjectTicketPayloads ==
    {With(EmptyPayload, "start_iso", 1),
     With(With(With(EmptyPayload, "start_iso", 1), "entry_type", "hardware"),
          "hardware_id", 1)}

\* PATCH payloads: project_posted is a bool of EntryUpdate, stored as 0 or 1
ProjectUpdatePayloads ==
    {With(EmptyPayload, "project_id", 1),
     With(EmptyPayload, "project_posted", 0),
     With(EmptyPayload, "completed", 1)}

\* POST /api/v1/projects: create_project
CreateProject(client_key) ==
    /\ pc = "idle"
    /\ NextId(projects) <= MaxProjects
    /\ IF create_project_error(client_key)
       THEN /\ UNCHANGED projects
            /\ last' = Outcome("create_project", NoInt, FALSE)
       ELSE /\ projects' = projects \cup {create_project_row(NextId(projects), client_key)}
            /\ last' = Outcome("create_project", NextId(projects), TRUE)
    /\ UNCHANGED <<hardware, tickets, events, clients, pc, cur, workers>>

\* POST /api/v1/projects/{id}/tickets: add_project_ticket
AddProjectTicket(project, p) ==
    /\ pc = "idle"
    /\ NextId(tickets) <= MaxTickets
    /\ IF create_error(project_ticket_payload(project, p))
       THEN /\ UNCHANGED <<tickets, events>>
            /\ last' = Outcome("add_project_ticket", NoInt, FALSE)
       ELSE \E t \in {create_row(project_ticket_payload(project, p), NextId(tickets))} :
                /\ tickets' = tickets \cup {t}
                /\ events' \in create_sync(events, t)
                /\ last' = Outcome("add_project_ticket", t.id, TRUE)
    /\ \A e \in events' : e.id <= MaxEventId
    /\ UNCHANGED <<hardware, clients, projects, pc, cur, workers>>

\* PATCH /api/v1/projects/{id}/tickets/{ticket_id}: update_ticket with the
\* project's id put into the payload; 404 for a ticket of no or another project
UpdateProjectTicket(project, t, p) ==
    /\ t.project_id = project.id
    /\ UpdateTicket(t, With(p, "project_id", project.id))

\* POST /api/v1/projects/{id}/finalize: finalize_project
FinalizeProject(project) ==
    /\ pc = "idle"
    /\ \E db \in post_all({t.id : t \in list_project_tickets(tickets, project.id, FALSE)},
                          tickets, events) :
           tickets' = db[1] /\ events' = db[2]
    /\ \A e \in events' : e.id <= MaxEventId
    /\ projects' = (projects \ {project}) \cup {finalized_row(project)}
    /\ last' = Outcome("finalize_project", project.id, TRUE)
    /\ UNCHANGED <<hardware, clients, pc, cur, workers>>

\* DELETE /api/v1/projects/{id}: delete_project
DeleteProject(project) ==
    /\ pc = "idle"
    /\ \E db \in delete_all({t.id : t \in {u \in tickets : /\ u.project_id = project.id
                                                           /\ u.project_posted = 0}},
                            tickets, events) :
           /\ tickets' = unlink_posted(db[1], project.id)
           /\ events' = db[2]
    /\ projects' = projects \ {project}
    /\ last' = Dropped("delete_project", project.id, events, events')
    /\ UNCHANGED <<hardware, clients, pc, cur, workers>>

NextProjects ==
    \/ \E client_key \in ProjectClientKeys : CreateProject(client_key)
    \/ \E project \in projects, p \in ProjectTicketPayloads : AddProjectTicket(project, p)
    \/ \E t \in tickets, p \in ProjectUpdatePayloads : UpdateTicket(t, p)
    \/ \E project \in projects, t \in tickets :
           \E p \in {With(EmptyPayload, "sent", 1), With(EmptyPayload, "project_posted", 0)} :
               UpdateProjectTicket(project, t, p)
    \/ \E project \in projects : FinalizeProject(project)
    \/ \E project \in projects : DeleteProject(project)
    \/ ListTickets

SpecProjects == Init /\ [][NextProjects]_vars

----------------------------------------------------------------------------
(* The billing modes of a ticket, checked under SpecBilling.               *)

\* C14: after create_entry / update_ticket the fields of the inactive
\* billing modes are null: a ticket that is not hardware-like has no
\* hardware_id, hardware_sales_price or hardware_quantity, and a ticket that
\* is not a deployment_flat_rate ticket has no flat_rate_amount or
\* flat_rate_quantity.  (hardware_barcode and hardware_description are
\* cleared on the same lines as hardware_sales_price and are not columns of
\* the model.)
C14_InactiveModesCleared ==
    \A t \in tickets :
        /\ t.entry_type \notin HARDWARE_LIKE_ENTRY_TYPES =>
               /\ t.hardware_id = NoInt
               /\ t.hardware_sales_price = NULL
               /\ t.hardware_quantity = NoInt
        /\ t.entry_type # "deployment_flat_rate" =>
               /\ t.flat_rate_amount = NULL
               /\ t.flat_rate_quantity = NoInt

\* create_entry stored a time ticket: both quantities hold the column
\* default
C14_Witness ==
    /\ last.op = "create_entry" /\ last.ok
    /\ \E t \in tickets :
           /\ t.id = last.id /\ t.entry_type = "time"
           /\ t.hardware_quantity = DefaultQuantity
           /\ t.flat_rate_quantity = DefaultQuantity

----------------------------------------------------------------------------
(* Money kept as text, checked under Spec.                                 *)

\* a fixed-point string with exactly two fractional digits
IsTwoDecimalText(s) ==
    /\ s # NULL
    /\ Len(s) >= 4
    /\ s[Len(s) - 2] = "."
    /\ s[Len(s) - 1] \in Digits /\ s[Len(s)] \in Digits
    /\ \A i \in 1..(Len(s) - 3) : s[i] \in Digits \/ (i = 1 /\ s[i] = "-")
    /\ s[Len(s) - 3] \in Digits

\* C15: every non-null money-as-text field (the catalog's sales_price and
\* acquisition_cost; a ticket's hardware_sales_price, flat_rate_amount,
\* invoiced_total and calculated_value) is a fixed-point string with exactly
\* two fractional digits, whatever form the payload gave it in.
C15_MoneyTwoDecimals ==
    /\ \A h \in hardware :
           /\ h.sales_price # NULL => IsTwoDecimalText(h.sales_price)
           /\ h.acquisition_cost # NULL => IsTwoDecimalText(h.acquisition_cost)
    /\ \A t \in tickets :
           /\ t.hardware_sales_price # NULL => IsTwoDecimalText(t.hardware_sales_price)
           /\ t.flat_rate_amount # NULL => IsTwoDecimalText(t.flat_rate_amount)
           /\ t.invoiced_total # NULL => IsTwoDecimalText(t.invoiced_total)
           /\ t.calculated_value # NULL => IsTwoDecimalText(t.calculated_value)

\* create_entry stored a hardware ticket whose payload gave the price
\* override "150" and the invoice total "99": the total is stored "99.00",
\* the override as given
C15_Witness ==
    /\ last.op = "create_entry" /\ last.ok
    /\ \E t \in tickets :
           /\ t.id = last.id /\ t.entry_type = "hardware"
           /\ t.invoiced_total = normalize_currency_input(Txt99)
           /\ IsTwoDecimalText(t.invoiced_total)
           /\ t.hardware_sales_price = Txt150

----------------------------------------------------------------------------
(* Flat-rate tickets, checked under SpecModes.                             *)

\* C16: every deployment_flat_rate ticket, after create_entry or
\* update_ticket, holds flat_rate_amount in canonical two-decimal form and
\* a calculated_value equal to the currency formatting of
\* flat_rate_amount * flat_rate_quantity.
C16_FlatRateValue ==
    \A t \in tickets :
        t.entry_type = "deployment_flat_rate" =>
            /\ IsTwoDecimalText(t.flat_rate_amount)
            /\ t.calculated_value =
                   format_decimal(DecTimes(to_decimal(t.flat_rate_amount),
                                           t.flat_rate_quantity))

\* the scenario of test_create_deployment_flat_rate_ticket: amount "750",
\* quantity 3 stored as "750.00" with calculated_value "2250.00"
C16_Witness ==
    /\ last.op = "create_entry" /\ last.ok
    /\ \E t \in tickets :
           /\ t.id = last.id /\ t.entry_type = "deployment_flat_rate"
           /\ t.flat_rate_amount = <<"7", "5", "0", ".", "0", "0">>
           /\ t.flat_rate_quantity = 3
           /\ t.calculated_value = <<"2", "2", "5", "0", ".", "0", "0">>

----------------------------------------------------------------------------
(* Pure helpers, checked under SpecHelpers.                                *)

\* C17: for a minute count m >= 0, round_minutes gives 0 when m < 5 and
\* otherwise the smallest multiple of 15 that is >= m (4 -> 0, 5 -> 15,
\* 16 -> 30, 0 -> 0); a negative m is treated as 0.
C17_RoundingRule ==
    (cur.fn = "round_minutes" /\ cur.done) =>
        /\ cur.arg < 5 => cur.result[2] = 0
        /\ cur.arg >= 5 =>
               /\ cur.result[2] % 15 = 0
               /\ cur.result[2] >= cur.arg
               /\ cur.result[2] - 15 < cur.arg
        /\ cur.arg < 0 => cur.result = round_minutes(0)
        /\ cur.arg = 4 => cur.result[2] = 0
        /\ cur.arg = 5 => cur.result[2] = 15
        /\ cur.arg = 16 => cur.result[2] = 30
        /\ cur.arg = 0 => cur.result[2] = 0

\* round_minutes(16) returned 30
C17_Witness ==
    /\ cur.fn = "round_minutes" /\ cur.done
    /\ cur.arg = 16 /\ cur.result[2] = 30

\* C18: normalize_barcode is idempotent on every barcode without an
\* alphabetic character, and exactly 12 digits come back as "0" followed by
\* those digits.
C18_NormalizeIdempotent ==
    (cur.fn = "normalize_barcode" /\ cur.done /\ ~HasAlpha(cur.arg)) =>
        /\ cur.again = cur.result
        /\ Len(Filter(cur.arg, Digits)) = 12 =>
               cur.result = <<"0">> \o Filter(cur.arg, Digits)

\* a hyphenated 12-digit barcode came back as 13 digits, and again as the same
C18_Witness ==
    /\ cur.fn = "normalize_barcode" /\ cur.done
    /\ Len(cur.arg) = 13 /\ Len(Filter(cur.arg, Digits)) = 12
    /\ cur.result = <<"0">> \o Filter(cur.arg, Digits)
    /\ cur.again = cur.result

----------------------------------------------------------------------------
(* Hardware lookup, checked under SpecLookup.                              *)

\* C19: a hardware lookup takes a numeric id or a barcode and tries the
\* aliases of a barcode in order, the first match winning: for an item
\* stored under a 13-digit barcode that starts with 0, get_hardware and the
\* inventory lookup given the 12 digits after the zero resolve to that item.
C19_LookupByAlias ==
    \A h \in hardware :
        (Len(h.barcode) = UpcLen + 1 /\ h.barcode[1] = "0" /\ ~HasAlpha(h.barcode)) =>
            /\ (last.op = "get_hardware" /\ cur.identifier = Tail(h.barcode)) =>
                   (last.ok /\ last.id = h.id)
            /\ (/\ last.op = "receive_inventory"
                /\ cur.hardware_id = NoInt
                /\ cur.identifier = Tail(h.barcode)) =>
                   (last.ok /\ last.id = h.id)

\* the inventory lookup given the 12-digit form found the item stored under
\* the 13-digit barcode
C19_Witness ==
    /\ last.op = "receive_inventory" /\ last.ok
    /\ cur.hardware_id = NoInt /\ cur.identifier = Upc12
    /\ \E h \in hardware : h.id = last.id /\ h.barcode = Ean13

----------------------------------------------------------------------------
(* The active listing, checked under SpecModes.                            *)

----------------------------------------------------------------------------
(* Projects, checked under SpecProjects.                                   *)

\* C21: a ticket added to a project is staged (project_posted = 0) and is
\* not returned by list_tickets until the project is finalized;
\* finalize_project posts every staged ticket of the project, keeps its
\* project_id and sets the project's finalized_at, and from then on
\* list_tickets returns the ticket.
C21_StagedUntilFinalized ==
    /\ (last.op = "add_project_ticket" /\ last.ok) =>
           \E t \in tickets :
               /\ t.id = last.id
               /\ t.project_id \in {pr.id : pr \in projects}
               /\ t.project_posted = 0
    /\ \A t \in list_tickets_rows(tickets) :
           t.project_id = NoInt \/ t.project_posted = 1
    /\ last.op = "finalize_project" =>
           /\ \A pr \in projects : pr.id = last.id => pr.finalized_at # NoInt
           /\ \A t \in tickets :
                  t.project_id = last.id =>
                      t.project_posted = 1 /\ t \in list_tickets_rows(tickets)

\* finalize_project posted a ticket of the project and stamped the project
C21_Witness ==
    /\ last.op = "finalize_project"
    /\ \E pr \in projects : pr.id = last.id /\ pr.finalized_at # NoInt
    /\ \E t \in tickets : t.project_id = last.id /\ t.project_posted = 1

\* C22: posting is one-way: a ticket with project_posted = 1 keeps it
\* through every ticket update (one carrying project_posted false included)
\* and every project operation.
C22_PostedStaysPosted ==
    [][\A t \in tickets : \A u \in tickets' :
           (t.project_posted = 1 /\ u.id = t.id) => u.project_posted = 1]_vars

\* a posted ticket of a finalized project is sent an update
C22_Witness ==
    /\ last.op = "update_ticket" /\ last.ok
    /\ \E t \in tickets : t.id = last.id /\ t.project_posted = 1
    /\ \E pr \in projects : pr.finalized_at # NoInt

\* C30: delete_project removes the project's staged tickets and their
\* inventory events and keeps its posted tickets with project_id cleared:
\* afterwards no ticket references the project, no event references a
\* deleted staged ticket, and every posted ticket and its events are as
\* before apart from project_id.
C30_DeleteProject ==
    [][last'.op = "delete_project" =>
          /\ \A pr \in projects' : pr.id # last'.id
          /\ \A t \in tickets' : t.project_id # last'.id
          /\ \A t \in tickets :
                 (t.project_id = last'.id /\ t.project_posted = 0) =>
                     /\ \A u \in tickets' : u.id # t.id
                     /\ \A e \in events' : e.ticket_id # t.id
          /\ \A t \in tickets :
                 (t.project_id = last'.id /\ t.project_posted = 1) =>
                     /\ [t EXCEPT !.project_id = NoInt] \in tickets'
                     /\ {e \in events : e.ticket_id = t.id}
                            = {e \in events' : e.ticket_id = t.id}
          /\ \A t \in tickets : t.project_id # last'.id => t \in tickets'
          /\ events' \subseteq events]_vars

\* delete_project removed a staged hardware ticket and its inventory event
C30_Witness ==
    /\ last.op = "delete_project" /\ last.dropped
    /\ \A t \in tickets : t.project_id = NoInt
    /\ \A e \in events : \E t \in tickets : t.id = e.ticket_id
    /\ projects = {}

-----------------------------------------------------------------------------
(* Reporting: calculate_ticket_metrics over the tickets table.  Amounts    *)
(* are Decimals <<n, scale>>; minutes / 60 is carried to six places, which *)
(* is exact to the cent for the whole-number rates of the directory.       *)

\* reporting._to_decimal: zero where tickets._to_decimal has None
report_to_decimal(value) ==
    IF to_decimal(value) = NULL THEN <<0, 0>> ELSE to_decimal(value)

\* Decimal + Decimal
DecAdd(a, b) ==
    IF a[2] >= b[2] THEN <<a[1] + b[1] * Pow10(a[2] - b[2]), a[2]>>
    ELSE <<a[1] * Pow10(b[2] - a[2]) + b[1], b[2]>>

\* _quantize_currency: quantize(TWOPLACES, rounding=ROUND_HALF_UP), as a
\* whole number of cents
quantize_currency(value) ==
    LET n == Abs(value[1])
        s == value[2]
        sign == IF value[1] < 0 THEN 0 - 1 ELSE 1
    IN  IF s <= 2 THEN value[1] * Pow10(2 - s)
        ELSE LET unit == Pow10(s - 2)
             IN  sign * ((n \div unit) + (IF 2 * (n % unit) >= unit THEN 1 ELSE 0))

\* the branch calculate_ticket_metrics takes for a ticket
report_is_hardware(t) == t.entry_type = "hardware"

\* ticket.rounded_minutes or ticket.minutes or ticket.elapsed_minutes or 0
report_minutes(t) ==
    IF t.rounded_minutes # 0 THEN t.rounded_minutes ELSE t.elapsed_minutes

\* the support rate calculate_ticket_metrics reads from the client table
report_support_rate(t) ==
    IF t.client_key \in DOMAIN clients
    THEN report_to_decimal(clients[t.client_key].support_rate)
    ELSE <<0, 0>>

\* the revenue calculate_ticket_metrics computes for one ticket
report_revenue(t) ==
    IF report_is_hardware(t)
    THEN DecTimes(report_to_decimal(t.hardware_sales_price),
                  IF t.hardware_quantity # NoInt THEN t.hardware_quantity ELSE 1)
    ELSE DecMul(<<(report_minutes(t) * 1000000) \div 60, 6>>, report_support_rate(t))

RECURSIVE report_sum(_)
\* the running total of the revenue of the tickets of `tks`
report_sum(tks) ==
    IF tks = {} THEN <<0, 0>>
    ELSE LET t == The(tks)
         IN  DecAdd(report_revenue(t), report_sum(tks \ {t}))

RECURSIVE report_minutes_sum(_)
\* billable_minutes_total over the tickets of `tks`
report_minutes_sum(tks) ==
    IF tks = {} THEN 0
    ELSE LET t == The(tks)
         IN  report_minutes(t) + report_minutes_sum(tks \ {t})

\* calculate_ticket_metrics: the totals, money in cents; keys are the keys
\* of the totals dictionary
calculate_ticket_metrics(tks) ==
    LET hw == {t \in tks : report_is_hardware(t)}
        tm == tks \ hw
        unsent == {t \in tks : t.sent = 0}
    IN  [keys |-> {"tickets_total", "tickets_open", "tickets_completed",
                   "tickets_sent", "time_ticket_count", "hardware_ticket_count",
                   "hardware_units_sold", "billable_hours", "billable_minutes",
                   "revenue_time", "revenue_hardware", "revenue_total",
                   "average_revenue_per_ticket", "average_hours_per_time_ticket",
                   "unsent_revenue", "unsent_time_revenue",
                   "unsent_hardware_revenue", "unsent_ticket_count",
                   "clients_with_activity"},
         tickets_total |-> Cardinality(tks),
         time_ticket_count |-> Cardinality(tm),
         hardware_ticket_count |-> Cardinality(hw),
         billable_minutes |-> report_minutes_sum(tm),
         revenue_time |-> quantize_currency(report_sum(tm)),
         revenue_hardware |-> quantize_currency(report_sum(hw)),
         revenue_total |-> quantize_currency(DecAdd(report_sum(tm), report_sum(hw))),
         unsent_revenue |-> quantize_currency(report_sum(unsent)),
         unsent_time_revenue |-> quantize_currency(report_sum(unsent \cap tm)),
         unsent_hardware_revenue |-> quantize_currency(report_sum(unsent \cap hw))]

\* GET /reports: reports_page calls calculate_ticket_metrics
CalculateTicketMetrics ==
    /\ pc = "idle"
    /\ last' = [op |-> "calculate_ticket_metrics", id |-> NoInt, ok |-> TRUE,
                dropped |-> FALSE, metrics |-> calculate_ticket_metrics(tickets)]
    /\ UNCHANGED <<hardware, tickets, events, clients, projects, pc, cur, workers>>

\* tickets of every billing mode: time tickets open, of two and of thirty
\* minutes, of a client with a rate and of one without; a hardware ticket of
\* two units; flat-rate tickets of one and of three units
ReportCreatePayloads ==
    {CreateBase("acme"),
     With(CreateBase("acme"), "end_iso", 3),
     With(CreateBase("acme"), "end_iso", 31),
     With(CreateBase("brightway"), "end_iso", 31),
     With(With(With(CreateBase("acme"), "entry_type", "hardware"), "hardware_id", 1),
          "hardware_quantity", 2),
     With(With(CreateBase("acme"), "entry_type", "deployment_flat_rate"),
          "flat_rate_amount", Txt750),
     With(With(With(CreateBase("acme"), "entry_type", "deployment_flat_rate"),
               "flat_rate_amount", Txt99), "flat_rate_quantity", 3)}

ReportUpdatePayloads ==
    {With(EmptyPayload, "sent", 1),
     With(EmptyPayload, "completed", 1),
     With(EmptyPayload, "end_iso", 5),
     With(EmptyPayload, "end_iso", 16)}

NextReporting ==
    \/ \E p \in ReportCreatePayloads : CreateEntry(p)
    \/ \E t \in tickets, p \in ReportUpdatePayloads : UpdateTicket(t, p)
    \/ CalculateTicketMetrics

SpecReporting == Init /\ [][NextReporting]_vars

\* the flat-rate revenue of `tks`: flat_rate_amount * flat_rate_quantity of
\* every deployment_flat_rate ticket
RECURSIVE flat_rate_revenue(_)
flat_rate_revenue(tks) ==
    IF tks = {} THEN <<0, 0>>
    ELSE LET t == The(tks)
         IN  DecAdd(IF t.entry_type = "deployment_flat_rate"
                    THEN DecTimes(report_to_decimal(t.flat_rate_amount),
                                  IF t.flat_rate_quantity # NoInt
                                  THEN t.flat_rate_quantity ELSE 1)
                    ELSE <<0, 0>>,
                    flat_rate_revenue(tks \ {t}))

\* C23: calculate_ticket_metrics partitions revenue by entry type: the
\* totals carry flat_rate_ticket_count and revenue_flat_rate, a
\* deployment_flat_rate ticket is not counted as a time ticket,
\* revenue_total is revenue_time + revenue_hardware + the flat-rate revenue
\* (flat_rate_amount * flat_rate_quantity), and unsent_revenue is the same
\* sum over the tickets with sent false.
C23_RevenuePartition ==
    (/\ last.op = "calculate_ticket_metrics"
     /\ \E t \in tickets : t.entry_type = "deployment_flat_rate") =>
        LET m == last.metrics
            flat == {t \in tickets : t.entry_type = "deployment_flat_rate"}
            unsent == {t \in tickets : t.sent = 0}
        IN  /\ {"flat_rate_ticket_count", "revenue_flat_rate"} \subseteq m.keys
            /\ m.time_ticket_count + m.hardware_ticket_count + Cardinality(flat)
                   = m.tickets_total
            /\ m.revenue_total = m.revenue_time + m.revenue_hardware
                                     + quantize_currency(flat_rate_revenue(flat))
            /\ m.unsent_revenue = m.unsent_time_revenue + m.unsent_hardware_revenue
                                      + quantize_currency(flat_rate_revenue(flat \cap unsent))

\* the report ran over a flat-rate ticket with an amount
C23_Witness ==
    /\ last.op = "calculate_ticket_metrics"
    /\ \E t \in tickets : /\ t.entry_type = "deployment_flat_rate"
                          /\ to_decimal(t.flat_rate_amount) # NULL
                          /\ t.sent = 0

\* C29: reporting bills a time ticket on the basis of its calculated_value:
\* the billable minutes it adds are the ticket's rounded_minutes, so a
\* ticket of 1 to 4 elapsed minutes (rounded_minutes 0) adds no minutes
\* and no revenue.
C29_ReportBillsRounded ==
    last.op = "calculate_ticket_metrics" =>
        \A t \in tickets :
            (t.entry_type = "time" /\ t.rounded_minutes = 0) =>
                /\ last.metrics.billable_minutes
                       = report_minutes_sum({u \in tickets \ {t} : ~report_is_hardware(u)})
                /\ last.metrics.revenue_time
                       = quantize_currency(report_sum({u \in tickets \ {t} :
                                                          ~report_is_hardware(u)}))

\* the report ran over a closed time ticket of under five minutes whose
\* calculated_value is zero
C29_Witness ==
    /\ last.op = "calculate_ticket_metrics"
    /\ \E t \in tickets : /\ t.entry_type = "time"
                          /\ t.elapsed_minutes \in 1..4
                          /\ t.rounded_minutes = 0
                          /\ t.calculated_value = <<"0", ".", "0", "0">>

-----------------------------------------------------------------------------
(* Notes of contract clients.  The two ticket handlers are the ones above; *)
(* here the outcome also keeps the note the request carried, so that the   *)
(* stored note can be compared with it.                                    *)

TxtOk == <<"O", "k">>

\* notes a request may carry: empty, plain, the notice alone, notes that
\* already carry the notice, and one that carries it after a blank
NoteTexts ==
    {<<>>, TxtOk, TxtAbc, CONTRACT_CLIENT_NOTE_PREFIX,
     CONTRACT_CLIENT_NOTE_PREFIX \o <<"\n">> \o TxtOk,
     CONTRACT_CLIENT_NOTE_PREFIX \o <<"\n">> \o TxtAbc,
     <<" ">> \o CONTRACT_CLIENT_NOTE_PREFIX \o <<"\n">> \o TxtOk}

NoteCreatePayloads ==
    {CreateBase(k) : k \in {"acme", "brightway"}}
    \cup {With(CreateBase(k), "note", n) : k \in {"acme", "brightway"}, n \in NoteTexts}

NoteUpdatePayloads ==
    {With(EmptyPayload, "note", n) : n \in NoteTexts}
    \cup {With(EmptyPayload, "client_key", k) : k \in {"acme", "brightway"}}
    \cup {With(With(EmptyPayload, "client_key", "brightway"), "note", TxtOk),
          With(EmptyPayload, "completed", 1),
          With(EmptyPayload, "sent", 1)}

\* the outcome of a ticket request together with the note it carried
Noted(op, id, ok, p) ==
    [op |-> op, id |-> id, ok |-> ok, dropped |-> FALSE,
     noted |-> Has(p, "note"), note |-> Get(p, "note", NULL)]

\* POST /api/v1/tickets: create_entry
CreateNote(p) ==
    /\ pc = "idle"
    /\ NextId(tickets) <= MaxTickets
    /\ IF create_error(p)
       THEN /\ UNCHANGED <<tickets, events>>
            /\ last' = Noted("create_entry", NoInt, FALSE, p)
       ELSE \E t \in {create_row(p, NextId(tickets))} :
                /\ tickets' = tickets \cup {t}
                /\ events' \in create_sync(events, t)
                /\ last' = Noted("create_entry", t.id, TRUE, p)
    /\ UNCHANGED <<hardware, clients, projects, pc, cur, workers>>

\* PATCH /api/v1/tickets/{id}: update_ticket
SaveNote(t, p) ==
    \E row \in {update_ticket_row(t, p)} :
        /\ pc = "idle"
        /\ tickets' = (tickets \ {t}) \cup {row}
        /\ IF update_error(t, p)
           THEN /\ UNCHANGED events
                /\ last' = Noted("update_ticket", t.id, FALSE, p)
           ELSE /\ events' \in update_sync(events, row)
                /\ last' = Noted("update_ticket", t.id, TRUE, p)
        /\ UNCHANGED <<hardware, clients, projects, pc, cur, workers>>

NextNotes ==
    \/ \E p \in NoteCreatePayloads : CreateNote(p)
    \/ \E t \in tickets, p \in NoteUpdatePayloads : SaveNote(t, p)
    \/ \E t \in tickets : SaveNote(t, With(EmptyPayload, "note", t.note))

SpecNotes == Init /\ [][NextNotes]_vars

\* how many times the notice occurs in a note
NoticeCount(note) ==
    IF note = NULL THEN 0
    ELSE Cardinality({i \in 1..Len(note) :
             /\ i + Len(CONTRACT_CLIENT_NOTE_PREFIX) - 1 <= Len(note)
             /\ SubSeq(note, i, i + Len(CONTRACT_CLIENT_NOTE_PREFIX) - 1)
                    = CONTRACT_CLIENT_NOTE_PREFIX})

\* C24: for a contract client the notice is prepended exactly once: a
\* ticket created or saved with a note N that does not carry the notice is
\* stored with PREFIX, a newline and N; a note that already starts with the
\* notice is stored unchanged, on create and on re-saving; the stored note
\* carries the notice once.
C24_NoticeOnce ==
    (/\ last.op \in {"create_entry", "update_ticket"}
     /\ last.ok
     /\ last.noted \/ last.op = "create_entry") =>
        \A t \in tickets :
            (t.id = last.id /\ is_contract_client(t.client_key)) =>
                /\ (last.note # NULL /\ last.note # <<>> /\ NoticeCount(last.note) = 0) =>
                       t.note = CONTRACT_CLIENT_NOTE_PREFIX \o <<"\n">> \o last.note
                /\ (last.note # NULL /\ StartsWith(last.note, CONTRACT_CLIENT_NOTE_PREFIX)) =>
                       t.note = last.note
                /\ NoticeCount(t.note) = 1

\* a note that already carries the notice was saved again for a contract
\* client
C24_Witness ==
    /\ last.op = "update_ticket" /\ last.ok /\ last.noted
    /\ StartsWith(last.note, CONTRACT_CLIENT_NOTE_PREFIX)
    /\ Len(last.note) > Len(CONTRACT_CLIENT_NOTE_PREFIX)
    /\ \E t \in tickets : /\ t.id = last.id
                          /\ is_contract_client(t.client_key)
                          /\ t.note = last.note

-----------------------------------------------------------------------------
(* The client link of a ticket, over requests that name a client of the   *)
(* directory, a client key the directory does not hold ("ghost"), or no    *)
(* key, each with and without a display name of the caller's own.          *)

ClientCreatePayloads ==
    {With(With(EmptyPayload, "start_iso", 1), "client", "Walk-in")}
    \cup {With(CreateBase(k), "end_iso", e) :
              k \in {"acme", "brightway", "ghost", ""}, e \in {5, 31}}
    \cup {With(CreateBase(k), "client", "Walk-in") : k \in {"acme", "ghost", ""}}

ClientUpdatePayloads ==
    {With(EmptyPayload, "client_key", k) : k \in {"acme", "brightway", "ghost", ""}}
    \cup {With(EmptyPayload, "client", "Walk-in"),
          With(With(EmptyPayload, "client_key", "ghost"), "client", "Walk-in"),
          With(EmptyPayload, "completed", 1),
          With(EmptyPayload, "sent", 1)}

NextClients ==
    \/ \E p \in ClientCreatePayloads : CreateEntry(p)
    \/ \E t \in tickets, p \in ClientUpdatePayloads : UpdateTicket(t, p)

SpecClients == Init /\ [][NextClients]_vars

\* C25: a create, and an update that touches the client, fails when
\* client_key is missing or does not resolve to a display name in the client
\* directory, so every stored ticket has a client_key that the directory
\* resolved when the ticket was written.  (The directory does not change
\* under SpecClients.)
C25_ClientResolved ==
    \A t \in tickets :
        /\ t.client_key \in DOMAIN clients
        /\ resolve_client_name(t.client_key) # ""

\* an update that names a client key the directory does not hold was
\* rejected, and the ticket kept its client
C25_Witness ==
    /\ last.op = "update_ticket" /\ ~last.ok
    /\ \E t \in tickets : /\ t.id = last.id
                          /\ t.client_key \in DOMAIN clients
                          /\ t.client = clients[t.client_key].name

-----------------------------------------------------------------------------
(* Purchase costs: the ledger rows written for stock movements and the     *)
(* average_unit_cost list_hardware attaches to each catalog item.  Costs   *)
(* are floats <<n, scale>>; the average is the exact fraction              *)
(* <<numerator, denominator>> in thousandths, in lowest terms.             *)

MaxLedger == 3

RECURSIVE Gcd(_, _)
Gcd(a, b) == IF b = 0 THEN a ELSE Gcd(b, a % b)

\* a cost in thousandths
Milli(d) == d[1] * Pow10(3 - d[2])

\* the rows of _attach_inventory_metrics' query with the conditions on
\* counterparty_type and change left out
vendor_cost_rows_any(evs, hardware_id) ==
    {e \in evs : e.hardware_id = hardware_id /\ e.unit_cost # NULL}

\* _attach_inventory_metrics: the rows of its query that carry a unit_cost
vendor_cost_rows(evs, hardware_id) ==
    {e \in evs : /\ e.hardware_id = hardware_id
                 /\ e.counterparty_type = "vendor"
                 /\ e.change > 0
                 /\ e.unit_cost # NULL}

RECURSIVE unit_cost_sum(_)
\* sum(info["unit_costs"]), in thousandths
unit_cost_sum(rows) ==
    IF rows = {} THEN 0
    ELSE LET e == The(rows) IN Milli(e.unit_cost) + unit_cost_sum(rows \ {e})

\* _attach_inventory_metrics: average_unit_cost of one item
average_unit_cost(evs, hardware_id) ==
    LET rows == vendor_cost_rows(evs, hardware_id)
    IN  IF rows = {} THEN NULL
        ELSE LET total == unit_cost_sum(rows)
                 n == Cardinality(rows)
                 g == Gcd(total, n)
             IN  <<total \div g, n \div g>>

\* _attach_inventory_metrics over the items of a page
attach_inventory_metrics(items, evs) ==
    [id \in {h.id : h \in items} |-> average_unit_cost(evs, id)]

\* stock movements: <<change, counterparty_type, unit cost>>; receipts from
\* vendors at 25 and at 20 a unit, a receipt without a cost, a return to a
\* vendor, and movements to and from a client
Movements ==
    {<<4, "vendor", <<25, 0>>>>, <<3, "vendor", <<20, 0>>>>, <<2, "vendor", NULL>>,
     <<0 - 1, "vendor", <<25, 0>>>>, <<0 - 2, "client", <<20, 0>>>>,
     <<2, "client", <<45, 0>>>>}

\* record_inventory_event called for a stock movement of item h
RecordMovement(h, mv) ==
    /\ pc = "idle"
    /\ NextId(events) <= MaxLedger
    /\ IF record_error(mv[1])
       THEN /\ UNCHANGED events
            /\ last' = Outcome("record_inventory_event", NoInt, FALSE)
       ELSE /\ events' = record_inventory_event(events, h.id, mv[1], "manual", NoInt,
                                                mv[2], mv[3], NULL)
            /\ last' = Outcome("record_inventory_event", NextId(events), TRUE)
    /\ UNCHANGED <<hardware, tickets, clients, projects, pc, cur, workers>>

\* GET /api/v1/hardware: list_hardware, with the metrics it attaches
ListHardwareCosts ==
    LET pending == normalize_existing_barcodes(hardware, hardware)
    IN  /\ pc = "idle"
        /\ hardware' = commit(hardware, pending)
        /\ last' = [op |-> "list_hardware", id |-> NoInt,
                    ok |-> ~unique_violation(pending), dropped |-> FALSE,
                    metrics |-> attach_inventory_metrics(hardware', events)]
        /\ UNCHANGED <<tickets, events, clients, projects, pc, cur, workers>>

NextCosts ==
    \/ \E h \in hardware, mv \in Movements : RecordMovement(h, mv)
    \/ \E e \in events : DeleteEvent(e)
    \/ ListHardwareCosts

SpecCosts == Init /\ [][NextCosts]_vars

\* positive-change vendor events of an item that have a cost
PurchaseEvents(hardware_id) ==
    {e \in events : /\ e.hardware_id = hardware_id
                    /\ e.change > 0
                    /\ e.counterparty_type = "vendor"
                    /\ e.actual_cost # NULL}

RECURSIVE per_unit_sum(_)
\* the sum over `rows` of total actual_cost / |change|, in thousandths
per_unit_sum(rows) ==
    IF rows = {} THEN 0
    ELSE LET e == The(rows)
         IN  Milli(e.actual_cost) \div Abs(e.change) + per_unit_sum(rows \ {e})

\* C26: average_unit_cost of an item is the unweighted mean, over its
\* positive-change vendor events, of the cost per unit (total actual_cost
\* divided by |change|), and null when it has no such event; events of
\* clients and negative changes do not enter.  Totals of 100 over +4 and 60
\* over +3 give 22.5.
C26_AverageUnitCost ==
    (last.op = "list_hardware" /\ last.ok) =>
        \A h \in hardware :
            LET avg == last.metrics[h.id]
                rows == PurchaseEvents(h.id)
            IN  /\ (avg = NULL) <=> (rows = {})
                /\ avg # NULL =>
                       avg[1] * Cardinality(rows) = avg[2] * per_unit_sum(rows)
                /\ (/\ Cardinality(rows) = 2
                    /\ {<<e.actual_cost, e.change>> : e \in rows}
                           = {<<<<100, 0>>, 4>>, <<<<60, 0>>, 3>>}) =>
                       avg = <<22500, 1>>

\* the catalog was listed when an item had vendor receipts of 100 over +4
\* and 60 over +3 and a movement to a client
C26_Witness ==
    /\ last.op = "list_hardware" /\ last.ok
    /\ \E h \in hardware :
           /\ Cardinality(PurchaseEvents(h.id)) = 2
           /\ {<<e.actual_cost, e.change>> : e \in PurchaseEvents(h.id)}
                  = {<<<<100, 0>>, 4>>, <<<<60, 0>>, 3>>}
           /\ \E e \in events : /\ e.hardware_id = h.id
                                /\ e.counterparty_type = "client"
                                /\ e.unit_cost # NULL
           /\ last.metrics[h.id] = <<22500, 1>>

-----------------------------------------------------------------------------
(* Currency formatting: the two functions that bring an amount to two      *)
(* decimals, each applied to an amount in thousandths drawn at the start.  *)

MaxThousandths == 2700

InitMoney ==
    /\ hardware = {}
    /\ tickets = {}
    /\ events = {}
    /\ clients = InitClients
    /\ projects = {}
    /\ last = Outcome("init", NoInt, TRUE)
    /\ pc = "idle"
    /\ cur \in {Call(fn, <<n, 3>>) :
                    fn \in {"format_decimal", "quantize_currency"},
                    n \in 0..MaxThousandths}
    /\ workers = InitWorkers

\* tickets._format_decimal(value)
FormatDecimal ==
    /\ cur.fn = "format_decimal" /\ ~cur.done
    /\ cur' = [cur EXCEPT !.result = format_decimal(cur.arg), !.done = TRUE]
    /\ last' = Outcome("format_decimal", NoInt, TRUE)
    /\ UNCHANGED <<hardware, tickets, events, clients, projects, pc, workers>>

\* reporting._quantize_currency(value), written out as format(value, "f")
QuantizeCurrency ==
    /\ cur.fn = "quantize_currency" /\ ~cur.done
    /\ cur' = [cur EXCEPT !.result = CentsToStr(quantize_currency(cur.arg)),
                          !.done = TRUE]
    /\ last' = Outcome("quantize_currency", NoInt, TRUE)
    /\ UNCHANGED <<hardware, tickets, events, clients, projects, pc, workers>>

NextMoney ==
    \/ FormatDecimal
    \/ QuantizeCurrency

SpecMoney == InitMoney /\ [][NextMoney]_vars

\* C27: currency formatting rounds to two decimals half-up: an amount of n
\* thousandths is written as the cents (n + 5) div 10, so 0.125 is "0.13"
\* and 2.675 is "2.68", and a tie never goes to the even neighbour below.
C27_RoundHalfUp ==
    cur.done =>
        /\ cur.result = CentsToStr((cur.arg[1] + 5) \div 10)
        /\ cur.arg = <<125, 3>> => cur.result = <<"0", ".", "1", "3">>
        /\ cur.arg = <<2675, 3>> => cur.result = <<"2", ".", "6", "8">>

\* _format_decimal was given a tie whose lower neighbour is even
C27_Witness ==
    /\ cur.done
    /\ cur.fn = "format_decimal"
    /\ cur.arg[1] % 20 = 5

-----------------------------------------------------------------------------
(* Two requests that change the quantity of one hardware ticket, run by    *)
(* the workers of the concurrent specification.                            *)

RaceCreatePayloads ==
    {With(With(LedgerBase, "entry_type", "hardware"), "hardware_id", 1)}

RaceUpdatePayloads ==
    {With(EmptyPayload, "hardware_quantity", 2),
     With(EmptyPayload, "hardware_quantity", 3),
     With(EmptyPayload, "hardware_id", 2)}

NextRace ==
    \/ \E p \in RaceCreatePayloads : CreateEntry(p)
    \/ \E w \in Workers, t \in tickets, p \in RaceUpdatePayloads : UpdateCommit(w, t, p)
    \/ \E w \in Workers : UpdateLookup(w)
    \/ \E w \in Workers : UpdateWrite(w)

SpecRace == InitConc /\ [][NextRace]_vars

\* C28: once two concurrent update_ticket calls on the same hardware ticket
\* have both finished, the ticket's inventory event agrees with the stored
\* ticket: change = -hardware_quantity and hardware_id = ticket.hardware_id.
C28_EventAgreesAfterRace ==
    (\A w \in Workers : workers[w].pc = "idle") =>
        \A t \in tickets :
            consumes_hardware(t) =>
                \A e \in events :
                    e.ticket_id = t.id =>
                        /\ e.change = 0 - usage_quantity(t)
                        /\ e.hardware_id = t.hardware_id

\* both workers have finished an update of the same hardware ticket, the
\* later one a change of quantity, and the ticket has its one event
C28_Witness ==
    /\ \A w \in Workers : workers[w].pc = "idle"
    /\ last.op = "update_ticket" /\ last.ok
    /\ \E t \in tickets :
           /\ t.id = last.id /\ consumes_hardware(t) /\ t.hardware_quantity = 3
           /\ \E e \in events : e.ticket_id = t.id /\ e.change = 0 - 3

====
